---- MODULE Spec2Model ----
(***************************************************************************)
(* Model of lamarkdown's label engine                                      *)
(* (src/lamarkdown/ext/label_support/labellers.py): the Labeller objects,  *)
(* their text / CSS rendering, and the LabellerFactory cache.              *)
(*                                                                         *)
(* Python objects live in `heap`, a sequence of Labeller records; the      *)
(* index of a record is the identity of the object.  Python strings are    *)
(* sequences of one-character strings, so that quoting, escaping and       *)
(* strip() are computed and not assumed.                                   *)
(*                                                                         *)
(* The callers of the factory, lamarkdown.ext.labels and the template      *)
(* parser, are modelled as document walks (a heading driver and a list     *)
(* driver) from the specification and the fixtures of                      *)
(* src/tests/ext/test_labels.py.                                           *)
(***************************************************************************)
EXTENDS Integers, Sequences, FiniteSets, TLC

VARIABLES
    heap,        \* every Labeller object ever constructed, in creation order
    next_id,     \* LabellerFactory._next_id
    labellers,   \* LabellerFactory._labellers: key tuple -> Labeller (heap index)
    ret,         \* the Labeller returned by the latest LabellerFactory.get
    op,          \* the latest operation and its arguments
    calls,       \* the number of operations so far
    issued,      \* history: key tuple -> the Labellers get has returned for it
    served,      \* history: Labeller -> the ancestor template chains get returned it for
    hstack,      \* heading driver: the Labeller in use at each heading depth
    out,         \* drivers: the labels rendered so far, in document order
    config,      \* list driver: the configured chain and whether css_fn is given
    scopes,      \* list driver: the open nesting levels, outermost first
    factory_b,   \* a second LabellerFactory: its _next_id and _labellers
    pending,     \* the get requests made of the first factory and not yet of the second
    md,          \* pybtex: the Markdown instance: built or not, hyperlinks, conversion phase
    cited_keys,  \* pybtex: the list shared by CitationInlineProcessor and PybtexTreeProcessor
    doc,         \* pybtex: the citation groups of the document handled so far, in order
    root,        \* pybtex: what each group of doc has become in the element tree
    biblio,      \* pybtex: what PybtexTreeProcessor.run made of the bibliography
    dicts,       \* build API: every configuration dict ever created, in creation order
    named_extensions, \* build API: BuildParams._named_extensions: name -> dict (index)
    ret_config,  \* build API: the dict the latest la(name, ...) call returned
    api_op,      \* build API: the latest call or write and its arguments
    port_arg,    \* lamd: the string given to port_range_type
    port_ret     \* lamd: what port_range_type returned or raised

vars == <<heap, next_id, labellers, ret, op, calls, issued, served, hstack, out,
          config, scopes, factory_b, pending, md, cited_keys, doc, root, biblio,
          dicts, named_extensions, ret_config, api_op, port_arg, port_ret>>

factoryVars == <<heap, next_id, labellers>>
historyVars == <<issued, served>>
driverVars == <<hstack, out, config, scopes>>
twinVars == <<factory_b, pending>>
walkVars == <<config, scopes>>
labelVars == <<heap, next_id, labellers, ret, op, calls, issued, served, hstack, out,
               config, scopes, factory_b, pending>>
pybtexVars == <<md, cited_keys, doc, root, biblio>>
apiVars == <<dicts, named_extensions, ret_config, api_op>>
lamdVars == <<port_arg, port_ret>>
toolVars == <<pybtexVars, apiVars, lamdVars>>

----------------------------------------------------------------------------
(* Bounds *)

MaxCalls == 4         \* operations in one run
MaxLabellers == 3     \* Labeller objects constructed
MaxChildren == 2      \* length of a children list
MaxCount == 1         \* largest count a caller supplies
MaxHeadings == 6      \* headings in one document
MaxDepth == 3         \* deepest heading, h1..h3
MaxElements == 6      \* list items and headings in one walk of the list driver
MaxNest == 4          \* deepest list nesting
MaxDirectives == 2    \* label directives in one walk
MaxRequests == 3      \* get requests made of each of two factories
MaxAlphaCount == 53   \* largest count rendered in letters
MaxAlphaCalls == 2    \* get calls in a run that renders letters
MaxTypeCalls == 3     \* get calls in a run with several element types
MaxCites == 2         \* citations in one bracketed group
MaxGroups == 2        \* citation groups in one document
MaxConversions == 2   \* documents one Markdown instance converts
MaxApiCalls == 3       \* build API calls and writes into returned dicts

----------------------------------------------------------------------------
(* Python's None, for the three Optional fields *)

NoParent == 0          \* Labeller._parent is None
NoCssId == -1          \* Labeller._css_id is None
NoCounter == "none"    \* LabelTemplate.counter_type is None
PyNone == <<"None">>   \* a None returned where a str is otherwise returned

----------------------------------------------------------------------------
(* Strings *)

Digits == <<"0", "1", "2", "3", "4", "5", "6", "7", "8", "9">>

Letters == <<"a", "b", "c", "d", "e", "f", "g", "h", "i", "j", "k", "l", "m",
             "n", "o", "p", "q", "r", "s", "t", "u", "v", "w", "x", "y", "z">>

\* str(n) for n >= 0
RECURSIVE DecStr(_)
DecStr(n) ==
    IF n < 10 THEN <<Digits[n + 1]>>
    ELSE DecStr(n \div 10) \o <<Digits[(n % 10) + 1]>>

\* positional base 26 with a for the digit 0: decimal with other digits
RECURSIVE Base26Digits(_)
Base26Digits(m) ==
    IF m < 26 THEN <<Letters[m + 1]>>
    ELSE Base26Digits(m \div 26) \o <<Letters[(m % 26) + 1]>>

AlphaStr_mut_substituted_digits(n) == IF n <= 0 THEN <<>> ELSE Base26Digits(n - 1)

\* bijective base 26: 1 -> a, 26 -> z, 27 -> aa
RECURSIVE AlphaStr(_)
AlphaStr(n) ==
    IF n <= 0 THEN <<>>
    ELSE AlphaStr((n - 1) \div 26) \o <<Letters[((n - 1) % 26) + 1]>>

UpperLetters == <<"A", "B", "C", "D", "E", "F", "G", "H", "I", "J", "K", "L", "M",
                  "N", "O", "P", "Q", "R", "S", "T", "U", "V", "W", "X", "Y", "Z">>

\* the same in capitals: 1 -> A, 27 -> AA
RECURSIVE UpperAlphaStr(_)
UpperAlphaStr(n) ==
    IF n <= 0 THEN <<>>
    ELSE UpperAlphaStr((n - 1) \div 26) \o <<UpperLetters[((n - 1) % 26) + 1]>>

\* the subtractive roman numerals, largest first
RomanNumerals ==
    << <<1000, <<"M">> >>, <<900, <<"C", "M">> >>, <<500, <<"D">> >>,
       <<400, <<"C", "D">> >>, <<100, <<"C">> >>, <<90, <<"X", "C">> >>,
       <<50, <<"L">> >>, <<40, <<"X", "L">> >>, <<10, <<"X">> >>,
       <<9, <<"I", "X">> >>, <<5, <<"V">> >>, <<4, <<"I", "V">> >>,
       <<1, <<"I">> >> >>

\* upper-case roman: 1 -> I, 4 -> IV, 9 -> IX
RECURSIVE RomanStr(_)
RomanStr(n) ==
    IF n <= 0 THEN <<>>
    ELSE LET i == CHOOSE j \in 1..Len(RomanNumerals) :
                      /\ RomanNumerals[j][1] <= n
                      /\ \A k \in 1..(j - 1) : RomanNumerals[k][1] > n
         IN  RomanNumerals[i][2] \o RomanStr(n - RomanNumerals[i][1])

\* what a str-returning call gives when Python raises AttributeError instead
\* (an attribute of None is read)
AttributeError == <<"AttributeError">>

\* CounterType.format(n); None has no format
Format(counter_type, n) ==
    CASE counter_type = "decimal" -> DecStr(n)
      [] counter_type = "lower-alpha" -> AlphaStr(n)
      [] counter_type = "upper-alpha" -> UpperAlphaStr(n)
      [] counter_type = "upper-roman" -> RomanStr(n)
      [] OTHER -> AttributeError

\* CounterType.css_id: the name of the CSS counter style
CssStyle(counter_type) == <<counter_type>>

\* str.lower() on the element types in use
Lower(s) ==
    CASE s = "OL" -> "ol"
      [] s = "UL" -> "ul"
      [] s = "H2" -> "h2"
      [] OTHER -> s

\* str.replace(old, new) for a one-character old
RECURSIVE Replace(_, _, _)
Replace(s, old, new) ==
    IF s = <<>> THEN <<>>
    ELSE (IF Head(s) = old THEN new ELSE <<Head(s)>>) \o Replace(Tail(s), old, new)

\* str.strip(): drop leading and trailing blanks
RECURSIVE LStrip(_)
LStrip(s) ==
    IF s # <<>> /\ Head(s) = " " THEN LStrip(Tail(s)) ELSE s

RECURSIVE RStrip(_)
RStrip(s) ==
    IF s # <<>> /\ s[Len(s)] = " " THEN RStrip(SubSeq(s, 1, Len(s) - 1)) ELSE s

Strip(s) == RStrip(LStrip(s))

\* _as_css_str(string)
as_css_str_mut_no_escape(string) ==
    IF string # <<>> THEN <<"\"">> \o string \o <<"\"">> ELSE <<>>

as_css_str(string) ==
    IF string # <<>>
    THEN <<"\"">> \o Replace(Replace(string, "\\", <<"\\", "\\">>), "\"", <<"\\", "\"">>) \o <<"\"">>
    ELSE <<>>

----------------------------------------------------------------------------
(* Templates and the inputs of the operations *)

LabelTemplate(counter_type, prefix, suffix, separator) ==
    [counter_type |-> counter_type, prefix |-> prefix,
     suffix |-> suffix, separator |-> separator]

Templates ==
    { LabelTemplate("decimal", <<>>, <<>>, <<".">>),
      LabelTemplate("decimal", <<"\"">>, <<"\\">>, <<>>),
      LabelTemplate(NoCounter, <<"@">>, <<>>, <<".">>) }

ElementTypes == {"OL"}

Counts == 0..MaxCount

----------------------------------------------------------------------------
(* Labeller *)

\* Labeller.__init__
Labeller(element_type, template, parent, count, css_id) ==
    [element_type |-> Lower(element_type),
     template |-> template,
     parent |-> parent,
     count |-> count,
     css_id |-> css_id,
     children |-> <<>>]

\* Labeller.add_child, as a function of the heap
add_child_mut_no_duplicates(h, self, child) ==
    IF \E n \in 1..Len(h[self].children) : h[self].children[n] = child THEN h
    ELSE [h EXCEPT ![self].children = Append(@, child)]

add_child(h, self, child) ==
    [h EXCEPT ![self].children = Append(@, child)]

\* Labeller.reset_children, as a function of the heap
reset_children_mut_resets_counts(h, self) ==
    [i \in 1..Len(h) |->
        IF i = self THEN [h[i] EXCEPT !.children = <<>>]
        ELSE IF \E n \in 1..Len(h[self].children) : h[self].children[n] = i
             THEN [h[i] EXCEPT !.count = 0]
             ELSE h[i]]

reset_children(h, self) ==
    [h EXCEPT ![self].children = <<>>]

\* Labeller.get_css_class
get_css_class_mut_count(h, self) ==
    IF h[self].css_id = NoCssId THEN PyNone
    ELSE <<"la-label">> \o DecStr(h[self].count)

get_css_class(h, self) ==
    IF h[self].css_id = NoCssId THEN PyNone
    ELSE <<"la-label">> \o DecStr(h[self].css_id)

\* Labeller._as_string_core
RECURSIVE as_string_core(_, _)
as_string_core_mut_none_at_root_only(h, self) ==
    LET s == IF h[self].template.counter_type = NoCounter THEN <<>>
             ELSE Format(h[self].template.counter_type, h[self].count) IN
    IF h[self].parent = NoParent THEN s
    ELSE as_string_core(h, h[self].parent) \o h[self].template.separator \o s

as_string_core_mut_no_none_check(h, self) ==
    LET s == Format(h[self].template.counter_type, h[self].count) IN
    IF h[self].parent = NoParent THEN s
    ELSE as_string_core(h, h[self].parent) \o h[self].template.separator \o s

as_string_core_mut_own_segment(h, self) ==
    IF h[self].template.counter_type = NoCounter THEN <<>>
    ELSE Format(h[self].template.counter_type, h[self].count)

as_string_core(h, self) ==
    IF h[self].template.counter_type = NoCounter THEN <<>>
    ELSE LET s == Format(h[self].template.counter_type, h[self].count) IN
         IF h[self].parent = NoParent THEN s
         ELSE as_string_core(h, h[self].parent) \o h[self].template.separator \o s

\* Labeller._as_css_expr_core
RECURSIVE as_css_expr_core(_, _)
as_css_expr_core_mut_per_segment(h, self) ==
    IF h[self].template.counter_type = NoCounter THEN <<>>
    ELSE LET expr == IF h[self].css_id = NoCssId
                     THEN as_css_str(Format(h[self].template.counter_type, h[self].count))
                     ELSE <<"counter(">> \o get_css_class(h, self) \o <<",">>
                          \o CssStyle(h[self].template.counter_type) \o <<")">> IN
         IF h[self].parent # NoParent
         THEN LET sep == as_css_str(h[self].template.separator) IN
              Strip(as_css_expr_core(h, h[self].parent) \o <<" ">> \o sep \o <<" ">> \o expr)
         ELSE expr

as_css_expr_core(h, self) ==
    IF h[self].template.counter_type = NoCounter THEN <<>>
    ELSE IF h[self].css_id = NoCssId THEN as_css_str(as_string_core(h, self))
    ELSE LET expr == <<"counter(">> \o get_css_class(h, self) \o <<",">>
                     \o CssStyle(h[self].template.counter_type) \o <<")">> IN
         IF h[self].parent # NoParent
         THEN LET sep == as_css_str(h[self].template.separator) IN
              Strip(as_css_expr_core(h, h[self].parent) \o <<" ">> \o sep \o <<" ">> \o expr)
         ELSE expr

\* Labeller.as_string
as_string(h, self) ==
    h[self].template.prefix \o as_string_core(h, self) \o h[self].template.suffix

\* Labeller.as_css_expr
as_css_expr(h, self) ==
    LET prefix == as_css_str(h[self].template.prefix)
        suffix == as_css_str(h[self].template.suffix) IN
    Strip(prefix \o <<" ">> \o as_css_expr_core(h, self) \o <<" ">> \o suffix)

----------------------------------------------------------------------------
(* LabellerFactory *)

\* LabellerFactory.get, lines 121-125: the part of the key the parent chain adds
RECURSIVE ancestor_keys(_, _, _)
ancestor_keys_mut_parent_count(h, template, cur_parent) ==
    IF cur_parent = NoParent THEN <<>>
    ELSE <<h[cur_parent].template.counter_type, h[cur_parent].count, template.separator>>
         \o ancestor_keys(h, template, h[cur_parent].parent)

ancestor_keys(h, template, cur_parent) ==
    IF cur_parent = NoParent THEN <<>>
    ELSE <<h[cur_parent].template.counter_type, template.separator>>
         \o ancestor_keys(h, template, h[cur_parent].parent)

\* LabellerFactory.get, lines 120-127: key
key_of_mut_no_counter_type(h, template, parent, css) ==
    <<css, template.prefix, template.suffix>> \o ancestor_keys(h, template, parent)

key_of(h, template, parent, css) ==
    <<template.counter_type, css, template.prefix, template.suffix>>
    \o ancestor_keys(h, template, parent)

\* LabellerFactory.get, lines 131-135: the css id of a new Labeller
new_css_id_mut_always(nid, css) == nid

new_css_id(nid, css) ==
    IF css = FALSE THEN NoCssId ELSE nid

\* LabellerFactory.get, lines 131-135: _next_id after a miss
next_id_mut_always(nid, css) ==
    nid + 1

next_id_after_miss(nid, css) ==
    IF css = FALSE THEN nid ELSE nid + 1

\* LabellerFactory.get, lines 136-139: _labellers after a miss
store_mut_css_only(cache, key, labeller, css) ==
    IF css = FALSE THEN cache ELSE (key :> labeller) @@ cache

store(cache, key, labeller, css) ==
    (key :> labeller) @@ cache

\* LabellerFactory.get, line 141: labeller.count = count
assign_count_mut_miss_only(h, labeller, count, hit) ==
    IF hit THEN h ELSE [h EXCEPT ![labeller].count = count]

assign_count(h, labeller, count, hit) ==
    [h EXCEPT ![labeller].count = count]

\* LabellerFactory.get, lines 143-144: registration with the parent
register_mut_reparent(h, parent, labeller) ==
    IF parent # NoParent
    THEN [add_child(h, parent, labeller) EXCEPT ![labeller].parent = parent]
    ELSE h

register(h, parent, labeller) ==
    IF parent # NoParent THEN add_child(h, parent, labeller) ELSE h

\* LabellerFactory.get as a function of the factory and the heap: the heap,
\* _next_id and _labellers after the call, and the Labeller returned
get(h, nid, cache, element_type, template, parent, count, css) ==
    LET key == key_of(h, template, parent, css)
        hit == key \in DOMAIN cache
        labeller == IF hit THEN cache[key] ELSE Len(h) + 1
        h1 == IF hit THEN h
              ELSE Append(h, Labeller(element_type, template, parent, count,
                                      new_css_id(nid, css)))
    IN  [heap |-> register(assign_count(h1, labeller, count, hit), parent, labeller),
         next_id |-> IF hit THEN nid ELSE next_id_after_miss(nid, css),
         labellers |-> IF hit THEN cache ELSE store(cache, key, labeller, css),
         ret |-> labeller, key |-> key, hit |-> hit]

\* the templates of the ancestors of a request, nearest first
RECURSIVE ancestor_templates(_, _)
ancestor_templates(h, cur_parent) ==
    IF cur_parent = NoParent THEN <<>>
    ELSE <<h[cur_parent].template>> \o ancestor_templates(h, h[cur_parent].parent)

----------------------------------------------------------------------------
(* The state machine of one factory and its Labellers *)

Objects == 1..Len(heap)

WithinBounds(h) ==
    /\ Len(h) <= MaxLabellers
    /\ \A i \in 1..Len(h) : Len(h[i].children) <= MaxChildren

NoOp == [name |-> "init"]

\* LabellerFactory.__init__: the attributes of a new factory
LabellerFactory == [next_id |-> 0, labellers |-> [k \in {} |-> 0]]

\* no label chain configured and no css_fn
NoConfig == [element_type |-> "OL", chain |-> [levels |-> <<>>, wildcard |-> FALSE],
             css |-> FALSE]

\* no Markdown instance has been constructed yet
NoMarkdown == [built |-> FALSE, hyperlinks |-> "both", phase |-> "none", conversions |-> 0]

\* PybtexTreeProcessor.run has not run in this conversion
NoBiblio == [status |-> "none", entries |-> <<>>]

\* no build API call has been made yet
NoCall == [kind |-> "none", name |-> "none", config |-> <<>>, count |-> 0]

\* port_range_type has not been called yet
NoPorts == [status |-> "none", start |-> 0, stop |-> 0]

\* before any Markdown instance, build API call or port_range_type call
InitTools ==
    /\ md = NoMarkdown
    /\ cited_keys = <<>>
    /\ doc = <<>>
    /\ root = <<>>
    /\ biblio = NoBiblio
    /\ dicts = <<>>
    /\ named_extensions = [n \in {} |-> 0]
    /\ ret_config = 0
    /\ api_op = NoCall
    /\ port_arg = <<>>
    /\ port_ret = NoPorts

Init ==
    /\ heap = <<>>
    /\ next_id = 0
    /\ labellers = [k \in {} |-> 0]
    /\ ret = 0
    /\ op = NoOp
    /\ calls = 0
    /\ issued = [k \in {} |-> {}]
    /\ served = <<>>
    /\ hstack = <<>>
    /\ out = <<>>
    /\ config = NoConfig
    /\ scopes = <<>>
    /\ factory_b = LabellerFactory
    /\ pending = <<>>
    /\ InitTools

\* a caller calls LabellerFactory.get
Get(element_type, template, parent, count, css) ==
    LET r == get(heap, next_id, labellers, element_type, template, parent, count, css)
        chain == ancestor_templates(heap, parent) IN
    /\ calls < MaxCalls
    /\ WithinBounds(r.heap)
    /\ heap' = r.heap
    /\ next_id' = r.next_id
    /\ labellers' = r.labellers
    /\ ret' = r.ret
    /\ op' = [name |-> "get", element_type |-> element_type, template |-> template,
              parent |-> parent, count |-> count, css |-> css,
              key |-> r.key, hit |-> r.hit]
    /\ calls' = calls + 1
    /\ issued' = IF r.key \in DOMAIN issued
                 THEN [issued EXCEPT ![r.key] = @ \cup {r.ret}]
                 ELSE (r.key :> {r.ret}) @@ issued
    /\ served' = IF r.ret \in DOMAIN served
                 THEN [served EXCEPT ![r.ret] = @ \cup {chain}]
                 ELSE Append(served, {chain})
    /\ UNCHANGED driverVars
    /\ UNCHANGED twinVars
    /\ UNCHANGED toolVars

\* a caller calls Labeller.add_child directly
AddChild(self, child) ==
    /\ calls < MaxCalls
    /\ WithinBounds(add_child(heap, self, child))
    /\ heap' = add_child(heap, self, child)
    /\ op' = [name |-> "add_child", self |-> self, child |-> child]
    /\ calls' = calls + 1
    /\ UNCHANGED <<next_id, labellers, ret>>
    /\ UNCHANGED historyVars
    /\ UNCHANGED twinVars
    /\ UNCHANGED toolVars
    /\ UNCHANGED driverVars

\* a caller calls Labeller.reset_children
ResetChildren(self) ==
    /\ calls < MaxCalls
    /\ heap' = reset_children(heap, self)
    /\ op' = [name |-> "reset_children", self |-> self]
    /\ calls' = calls + 1
    /\ UNCHANGED <<next_id, labellers, ret>>
    /\ UNCHANGED historyVars
    /\ UNCHANGED twinVars
    /\ UNCHANGED toolVars
    /\ UNCHANGED driverVars

\* a caller assigns Labeller.count (the property setter)
SetCount(self, n) ==
    /\ calls < MaxCalls
    /\ heap' = [heap EXCEPT ![self].count = n]
    /\ op' = [name |-> "count", self |-> self, n |-> n]
    /\ calls' = calls + 1
    /\ UNCHANGED <<next_id, labellers, ret>>
    /\ UNCHANGED historyVars
    /\ UNCHANGED twinVars
    /\ UNCHANGED toolVars
    /\ UNCHANGED driverVars

GetStep ==
    \E element_type \in ElementTypes, template \in Templates,
       parent \in {NoParent} \cup Objects, count \in Counts, css \in BOOLEAN :
        Get(element_type, template, parent, count, css)

AddChildStep == \E self \in Objects, child \in Objects : AddChild(self, child)

ResetChildrenStep == \E self \in Objects : ResetChildren(self)

SetCountStep == \E self \in Objects, n \in Counts : SetCount(self, n)

Next == GetStep \/ AddChildStep \/ ResetChildrenStep \/ SetCountStep

Spec == Init /\ [][Next]_vars

----------------------------------------------------------------------------
(* The heading driver: one document-order walk over the headings, with     *)
(* h_labels = "H.1 ,*" and h_level = 2 as in test_headings_at_h2.  A       *)
(* heading that opens a counting scope asks the factory for its Labeller   *)
(* with count 0; each labelled heading, the opening one included,          *)
(* increments the count of the scope's Labeller and renders it.  A heading *)
(* above h_level is unlabelled and closes every scope.                     *)

h_level == 2

\* "H.1 ,*": every level is decimal, followed by a blank, joined to the
\* label of the enclosing heading by "."
HeadingTemplate == LabelTemplate("decimal", <<>>, <<" ">>, <<".">>)

HeadingTag(depth) == <<"h1", "H2", "h3", "h4">>[depth]

InitDriver == Init

Heading(depth) ==
    LET level == depth - h_level + 1 IN
    /\ Len(out) < MaxHeadings
    /\ level <= Len(hstack) + 1
    /\ IF level < 1
       THEN /\ hstack' = <<>>
            /\ out' = Append(out, [depth |-> depth, labeller |-> NoParent, label |-> <<>>])
            /\ UNCHANGED factoryVars
       ELSE LET opens == level = Len(hstack) + 1
                parent == IF level = 1 THEN NoParent ELSE hstack[level - 1]
                r == get(heap, next_id, labellers, HeadingTag(depth), HeadingTemplate,
                         parent, 0, FALSE)
                labeller == IF opens THEN r.ret ELSE hstack[level]
                h1 == IF opens THEN r.heap ELSE reset_children(heap, labeller)
                h2 == [h1 EXCEPT ![labeller].count = @ + 1]
            IN  /\ heap' = h2
                /\ next_id' = IF opens THEN r.next_id ELSE next_id
                /\ labellers' = IF opens THEN r.labellers ELSE labellers
                /\ hstack' = IF opens THEN Append(hstack, labeller)
                             ELSE SubSeq(hstack, 1, level)
                /\ out' = Append(out, [depth |-> depth, labeller |-> labeller,
                                       label |-> as_string(h2, labeller)])
    /\ UNCHANGED <<ret, op, calls>>
    /\ UNCHANGED historyVars
    /\ UNCHANGED twinVars
    /\ UNCHANGED toolVars
    /\ UNCHANGED walkVars

HeadingStep == \E depth \in 1..MaxDepth : Heading(depth)

NextDriver == HeadingStep

SpecDriver == InitDriver /\ [][NextDriver]_vars

\* headings m and n of the document are siblings: same depth, and no
\* shallower heading between them
Siblings(m, n) ==
    /\ out[m].depth = out[n].depth
    /\ \A x \in m..n : out[x].depth >= out[n].depth

\* the position of heading n among its siblings
SiblingIndex(n) == Cardinality({m \in 1..n : Siblings(m, n)})

\* C10: sibling headings at the same depth, with the same configured chain
\* and no overrides, have the same Labeller object, and the k-th of them is
\* numbered k: at the top labelled level its label is k and a blank, below
\* it ends with the separator, k and a blank.
C10_SiblingHeadingsCountUp ==
    \A n \in 1..Len(out) :
        out[n].depth >= h_level =>
            /\ \A m \in 1..n : Siblings(m, n) => out[m].labeller = out[n].labeller
            /\ LET k == DecStr(SiblingIndex(n))
                   label == out[n].label IN
               IF out[n].depth = h_level
               THEN label = k \o <<" ">>
               ELSE /\ Len(label) > Len(k) + 2
                    /\ SubSeq(label, Len(label) - Len(k) - 1, Len(label))
                          = <<".">> \o k \o <<" ">>

\* C10 witness: the document of test_headings_at_h2 up to its first h3:
\* three h2 siblings, an h1, then h2 and h3, labelled 1, 2, 3, -, 1, 1.1
C10_Witness ==
    /\ Len(out) = 6
    /\ out[1].label = <<"1", " ">>
    /\ out[2].label = <<"2", " ">>
    /\ out[3].label = <<"3", " ">>
    /\ out[4].depth = 1
    /\ out[5].label = <<"1", " ">>
    /\ out[6].label = <<"1", ".", "1", " ">>
    /\ out[5].labeller = out[1].labeller

\* the heading that encloses heading n: the latest heading one level up with
\* nothing shallower in between
Enclosing(n) ==
    CHOOSE m \in 1..(n - 1) :
        /\ out[m].depth = out[n].depth - 1
        /\ \A x \in m..n : out[x].depth >= out[m].depth
        /\ \A y \in (m + 1)..(n - 1) : out[y].depth # out[m].depth

\* the number of heading n: the sibling positions along its path from the
\* first labelled level down, joined by "."
RECURSIVE PathNumber(_)
PathNumber(n) ==
    IF out[n].depth = h_level
    THEN DecStr(SiblingIndex(n))
    ELSE PathNumber(Enclosing(n)) \o <<".">> \o DecStr(SiblingIndex(n))

\* C11: with chain "H.1 ,*", every labelled heading renders the sibling
\* positions along its path, joined by "." and followed by a blank (levels
\* 1,2,2,1 give "1 ", "1.1 ", "1.2 ", "2 "); a heading at level D restarts
\* the numbering of every deeper level, so that the next deeper heading is
\* numbered 1 under its new parent.
C11_HeadingsNumberedByPath ==
    \A n \in 1..Len(out) :
        out[n].depth >= h_level => out[n].label = PathNumber(n) \o <<" ">>

\* C11 witness: levels 1,2,2,2,1,2 of test_headings_at_h1: "2.1 " follows
\* "1.3 " once the second top-level heading has arrived
C11_Witness ==
    /\ Len(out) = 6
    /\ out[1].label = <<"1", " ">>
    /\ out[2].label = <<"1", ".", "1", " ">>
    /\ out[3].label = <<"1", ".", "2", " ">>
    /\ out[4].label = <<"1", ".", "3", " ">>
    /\ out[5].label = <<"2", " ">>
    /\ out[6].label = <<"2", ".", "1", " ">>

----------------------------------------------------------------------------
(* The list driver: one document-order walk over nested list items (or     *)
(* over headings of one depth), with label chains, label directives and    *)
(* no-label flags.  Each open nesting level has a position in a chain: the *)
(* configured chain for a top-level list, the enclosing level's chain one  *)
(* position further for a nested list, and the directive's own chain from  *)
(* its first position for an element that carries a directive.  A level    *)
(* whose position is covered by its chain asks the factory for a Labeller  *)
(* with count 0 when it opens or takes a directive; every labelled         *)
(* element increments the count of its level's Labeller and renders it.    *)

\* one level of a chain: its template, and whether the notation names a
\* parent kind to join to ("L.1 " joins to the enclosing list, "-a-" does not)
Level(template, joined) == [template |-> template, joined |-> joined]

LabelChain(levels, wildcard) == [levels |-> levels, wildcard |-> wildcard]

\* an element without a label directive
NoDirective == LabelChain(<<>>, FALSE)

ChainL1Star == LabelChain(<<Level(LabelTemplate("decimal", <<>>, <<" ">>, <<".">>), TRUE)>>, TRUE)
ChainA == LabelChain(<<Level(LabelTemplate("lower-alpha", <<"-">>, <<"-">>, <<>>), FALSE)>>, FALSE)
ChainAStar == LabelChain(<<Level(LabelTemplate("lower-alpha", <<"-">>, <<"-">>, <<>>), FALSE)>>, TRUE)
Chain1 == LabelChain(<<Level(LabelTemplate("decimal", <<"-">>, <<"-">>, <<>>), FALSE)>>, FALSE)
ChainUpperAI ==
    LabelChain(<<Level(LabelTemplate("upper-alpha", <<".">>, <<".">>, <<>>), FALSE),
                 Level(LabelTemplate("upper-roman", <<".">>, <<".">>, <<>>), FALSE)>>, FALSE)
Chain1DotStar == LabelChain(<<Level(LabelTemplate("decimal", <<>>, <<".">>, <<>>), FALSE)>>, TRUE)
ChainI == LabelChain(<<Level(LabelTemplate("upper-roman", <<>>, <<".">>, <<>>), FALSE)>>, FALSE)

\* the chain has a template for its pos-th level
Covers_mut_no_wildcard(chain, pos) == pos <= Len(chain.levels)

Covers(chain, pos) ==
    pos <= Len(chain.levels) \/ (chain.wildcard /\ chain.levels # <<>>)

\* that level: the pos-th, or the last one repeated by the wildcard
LevelAt(chain, pos) ==
    chain.levels[IF pos <= Len(chain.levels) THEN pos ELSE Len(chain.levels)]

\* what is rendered for the paragraph that ends a list
Paragraph ==
    [level |-> 0, directive |-> NoDirective, no_label |-> FALSE, labeller |-> NoParent,
     label |-> <<>>, css_class |-> PyNone, content |-> <<>>]

\* the element takes the next number of its level's Labeller: its level is
\* labelled and it is not flagged no-label
consumes_count_mut_flag_ignored(labeller, no_label) == labeller # NoParent

consumes_count(labeller, no_label) == labeller # NoParent /\ ~no_label

\* the walk reaches an element at nesting level `level`
Element(level, directive, no_label) ==
    /\ Len(out) < MaxElements
    /\ level \in 1..(Len(scopes) + 1)
    /\ LET opens == level = Len(scopes) + 1
           inherited == IF level = 1 THEN [chain |-> config.chain, pos |-> 1]
                        ELSE [chain |-> scopes[level - 1].chain,
                              pos |-> scopes[level - 1].pos + 1]
           position == IF directive # NoDirective THEN [chain |-> directive, pos |-> 1]
                       ELSE IF opens THEN inherited
                       ELSE [chain |-> scopes[level].chain, pos |-> scopes[level].pos]
           fresh == opens \/ directive # NoDirective
           requested == fresh /\ Covers(position.chain, position.pos)
           lv == LevelAt(position.chain, position.pos)
           parent == IF lv.joined /\ level > 1 THEN scopes[level - 1].labeller
                     ELSE NoParent
           r == get(heap, next_id, labellers, config.element_type, lv.template,
                    parent, 0, config.css)
           labeller == IF requested THEN r.ret
                       ELSE IF fresh THEN NoParent ELSE scopes[level].labeller
           h1 == IF requested THEN r.heap
                 ELSE IF labeller # NoParent THEN reset_children(heap, labeller)
                 ELSE heap
           counted == consumes_count(labeller, no_label)
           h2 == IF counted THEN [h1 EXCEPT ![labeller].count = @ + 1] ELSE h1
       IN  /\ heap' = h2
           /\ next_id' = IF requested THEN r.next_id ELSE next_id
           /\ labellers' = IF requested THEN r.labellers ELSE labellers
           /\ scopes' = Append(SubSeq(scopes, 1, level - 1),
                               [chain |-> position.chain, pos |-> position.pos,
                                labeller |-> labeller])
           /\ out' = Append(out,
                  [level |-> level, directive |-> directive, no_label |-> no_label,
                   labeller |-> labeller,
                   label |-> IF counted /\ ~config.css THEN as_string(h2, labeller)
                             ELSE <<>>,
                   css_class |-> IF labeller # NoParent THEN get_css_class(h2, labeller)
                                 ELSE PyNone,
                   content |-> IF labeller # NoParent /\ config.css
                               THEN as_css_expr(h2, labeller) ELSE <<>>])
    /\ UNCHANGED <<ret, op, calls, hstack, config>>
    /\ UNCHANGED historyVars
    /\ UNCHANGED twinVars
    /\ UNCHANGED toolVars

\* a paragraph ends the list: every nesting level closes
EndList ==
    /\ Len(out) < MaxElements
    /\ scopes # <<>>
    /\ scopes' = <<>>
    /\ out' = Append(out, Paragraph)
    /\ UNCHANGED <<ret, op, calls, hstack, config>>
    /\ UNCHANGED factoryVars
    /\ UNCHANGED historyVars
    /\ UNCHANGED twinVars
    /\ UNCHANGED toolVars

\* the walk starts with a fresh factory, under some configuration
InitWalk(element_type, chain, css) ==
    /\ heap = <<>>
    /\ next_id = 0
    /\ labellers = [k \in {} |-> 0]
    /\ ret = 0
    /\ op = NoOp
    /\ calls = 0
    /\ issued = [k \in {} |-> {}]
    /\ served = <<>>
    /\ hstack = <<>>
    /\ out = <<>>
    /\ config = [element_type |-> element_type, chain |-> chain, css |-> css]
    /\ scopes = <<>>
    /\ factory_b = LabellerFactory
    /\ pending = <<>>
    /\ InitTools

\* nested ordered lists with ol_labels = "L.1 ,*", with and without css_fn
InitLists == \E css \in BOOLEAN : InitWalk("OL", ChainL1Star, css)

ItemStep == \E level \in 1..MaxNest : Element(level, NoDirective, FALSE)

NextLists == ItemStep \/ EndList

SpecLists == InitLists /\ [][NextLists]_vars

\* the elements of the walk that belong to the same list as element n and
\* come no later: same level, nothing shallower (and no paragraph) between
SameList(m, n) ==
    /\ m <= n
    /\ out[m].level = out[n].level
    /\ \A x \in m..n : out[x].level >= out[n].level

\* the item under which the list of element n is nested
EnclosingItem(n) ==
    CHOOSE m \in 1..(n - 1) :
        /\ out[m].level = out[n].level - 1
        /\ \A x \in (m + 1)..n : out[x].level >= out[n].level

\* the position of item n in its list
ItemIndex(n) == Cardinality({m \in 1..n : SameList(m, n)})

\* C12: with numeric levels joined by ".", the items of a list nested under
\* item k are labelled k.1, k.2, ...: each label is the number its parent
\* item was rendered with, then ".", then the item's own position in its
\* list, which starts from 1 again under each parent item.
C12_NestedItemsExtendParentLabel ==
    ~config.css =>
        \A n \in 1..Len(out) :
            out[n].level >= 2 =>
                LET parent_label == out[EnclosingItem(n)].label IN
                /\ parent_label # <<>>
                /\ out[n].label = SubSeq(parent_label, 1, Len(parent_label) - 1)
                                    \o <<".">> \o DecStr(ItemIndex(n)) \o <<" ">>

\* C12 witness: ItemA, ItemAA, ItemAB, ItemB, ItemBA, ItemBB of
\* test_ordered_lists: the list under item 2 is labelled 2.1, 2.2
C12_Witness ==
    /\ ~config.css
    /\ Len(out) = 6
    /\ out[2].label = <<"1", ".", "1", " ">>
    /\ out[3].label = <<"1", ".", "2", " ">>
    /\ out[4].label = <<"2", " ">>
    /\ out[5].label = <<"2", ".", "1", " ">>
    /\ out[6].label = <<"2", ".", "2", " ">>

\* the stylesheet counter of the level with class number j
DecimalCounter(j) == <<"counter(", "la-label">> \o DecStr(j) \o <<",", "decimal", ")">>

\* the counters of class numbers 0..d, root first, joined by the constant "."
RECURSIVE CounterPath(_)
CounterPath(d) ==
    IF d = 0 THEN DecimalCounter(0)
    ELSE CounterPath(d - 1) \o <<" ", "\"", ".", "\"", " ">> \o DecimalCounter(d)

\* the nesting levels met before the walk first reaches the level of element n
LevelsBefore(n) ==
    LET first == CHOOSE m \in 1..n : /\ out[m].level = out[n].level
                                     /\ \A x \in 1..(m - 1) : out[x].level # out[n].level
    IN  {out[x].level : x \in 1..(first - 1)} \ {0}

\* C17: with css_fn, two lists at the same nesting depth have the same
\* Labeller and the same la-label<N> class, also under different parent
\* items; N counts the depths in the order the walk first meets them, from
\* 0; and the content rule of depth d names the counters of depths 0..d,
\* root first, joined by the separator and followed by the suffix.
C17_CssClassPerDepth ==
    config.css =>
        \A n \in 1..Len(out) :
            out[n].level >= 1 =>
                /\ \A m \in 1..n : out[m].level = out[n].level =>
                       /\ out[m].labeller = out[n].labeller
                       /\ out[m].css_class = out[n].css_class
                /\ out[n].css_class = <<"la-label">> \o DecStr(Cardinality(LevelsBefore(n)))
                /\ out[n].content = CounterPath(out[n].level - 1) \o <<" ", "\"", " ", "\"">>
                /\ out[n].label = <<>>

\* C17 witness: ItemA, ItemAA, ItemAB, ItemABA, ItemB, ItemBA of
\* test_ordered_lists_css: la-label1 under ItemA and again under ItemB
C17_Witness ==
    /\ config.css
    /\ Len(out) = 6
    /\ out[1].css_class = <<"la-label", "0">>
    /\ out[2].css_class = <<"la-label", "1">>
    /\ out[4].css_class = <<"la-label", "2">>
    /\ out[4].content = <<"counter(", "la-label", "0", ",", "decimal", ")", " ", "\"", ".", "\"", " ",
                          "counter(", "la-label", "1", ",", "decimal", ")", " ", "\"", ".", "\"", " ",
                          "counter(", "la-label", "2", ",", "decimal", ")", " ", "\"", " ", "\"">>
    /\ out[5].level = 1
    /\ out[6].level = 2 /\ out[6].css_class = <<"la-label", "1">>

\* headings of one depth, no chain configured, with label directives "1.,*"
\* and "I." and no-label flags, as in test_no_label_headings
InitNoLabel == InitWalk("h1", NoDirective, FALSE)

PlainHeadingStep == Element(1, NoDirective, FALSE)

NoLabelHeadingStep == Element(1, NoDirective, TRUE)

DirectiveHeadingStep == \E directive \in {Chain1DotStar, ChainI} : Element(1, directive, FALSE)

NextNoLabel == PlainHeadingStep \/ NoLabelHeadingStep \/ DirectiveHeadingStep

SpecNoLabel == InitNoLabel /\ [][NextNoLabel]_vars

\* the element whose directive governs element n of a flat walk: the latest
\* one at or before n that carries a directive (0 if there is none)
Governing(n) ==
    IF \E m \in 1..n : out[m].directive # NoDirective
    THEN CHOOSE m \in 1..n : /\ out[m].directive # NoDirective
                             /\ \A x \in (m + 1)..n : out[x].directive = NoDirective
    ELSE 0

\* C13: an element flagged no-label gets no label text and takes no number:
\* wherever the no-label elements are placed, the other elements are
\* numbered consecutively from 1 under the template of the latest directive
\* (1., 2., 3., 4., and I., II. after the directive "I.").
C13_NoLabelTakesNoNumber ==
    \A n \in 1..Len(out) :
        LET g == Governing(n) IN
        IF out[n].no_label \/ g = 0
        THEN out[n].label = <<>>
        ELSE LET template == out[g].directive.levels[1].template
                 k == Cardinality({m \in g..n : ~out[m].no_label})
             IN  out[n].label = Format(template.counter_type, k) \o template.suffix

\* C13 witness: 1., -, 2., I., -, II.
C13_Witness ==
    /\ Len(out) = 6
    /\ out[1].label = <<"1", ".">>
    /\ out[2].no_label
    /\ out[3].label = <<"2", ".">>
    /\ out[4].label = <<"I", ".">>
    /\ out[5].no_label
    /\ out[6].label = <<"I", "I", ".">>

\* nested ordered lists, no chain configured, with the label directives of
\* test_ordered_lists_directive
InitDirectives == InitWalk("OL", NoDirective, FALSE)

ListDirectives == {ChainA, ChainAStar, Chain1, ChainUpperAI}

Directives == {n \in 1..Len(out) : out[n].directive # NoDirective}

DirectiveItemStep ==
    /\ Cardinality(Directives) < MaxDirectives
    /\ \E level \in 1..MaxNest, directive \in ListDirectives :
          Element(level, directive, FALSE)

NextDirectives == ItemStep \/ DirectiveItemStep \/ EndList

SpecDirectives == InitDirectives /\ [][NextDirectives]_vars

\* the element whose directive governs element n: the latest one at or
\* before n, at the level of n or above it, that carries a directive and
\* whose list has stayed open since (0 if there is none)
Governs(m, n) ==
    /\ m <= n
    /\ out[m].directive # NoDirective
    /\ out[m].level <= out[n].level
    /\ \A x \in (m + 1)..n : out[x].level >= out[m].level

GoverningDirective(n) ==
    IF \E m \in 1..n : Governs(m, n)
    THEN CHOOSE m \in 1..n : Governs(m, n) /\ \A x \in (m + 1)..n : ~Governs(x, n)
    ELSE 0

\* the position of element n in the chain of the directive that governs it
ChainPosition(n) == out[n].level - out[GoverningDirective(n)].level + 1

\* C14: a label directive on an element at depth D replaces the template
\* for depth D, and the levels below take their templates by position from
\* the directive's own chain (depth D+1 its second template, and so on),
\* whatever chain was in force before; a level past the end of that chain
\* is unlabelled.
C14_DirectiveChainByPosition ==
    \A n \in 1..Len(out) :
        LET g == GoverningDirective(n) IN
        (g # 0 /\ ~out[g].directive.wildcard) =>
            LET levels == out[g].directive.levels
                pos == ChainPosition(n) IN
            IF pos <= Len(levels)
            THEN /\ out[n].labeller # NoParent
                 /\ heap[out[n].labeller].template = levels[pos].template
                 /\ \E k \in 1..MaxElements :
                        out[n].label = levels[pos].template.prefix
                                          \o Format(levels[pos].template.counter_type, k)
                                          \o levels[pos].template.suffix
            ELSE /\ out[n].labeller = NoParent
                 /\ out[n].label = <<>>

\* C14 witness: 'Overridden inheritance' of test_ordered_lists_directive,
\* under a chain that covers every depth: the directive ".A.,.I." at depth 2
\* gives .A. there and .I. at depth 3, and depth 4 is unlabelled
C14_Witness ==
    /\ Len(out) = 4
    /\ out[1].directive = ChainAStar /\ out[1].label = <<"-", "a", "-">>
    /\ out[2].directive = ChainUpperAI /\ out[2].level = 2
    /\ out[2].label = <<".", "A", ".">>
    /\ out[3].level = 3 /\ out[3].label = <<".", "I", ".">>
    /\ out[4].level = 4 /\ out[4].labeller = NoParent

\* C15: a chain of n levels labels exactly the first n depths it applies to
\* and leaves every deeper level unlabelled, unless it ends with "*": then
\* every deeper level is labelled too, with the last explicit template.
C15_ChainLabelsItsLevels ==
    \A n \in 1..Len(out) :
        LET g == GoverningDirective(n) IN
        g # 0 =>
            LET chain == out[g].directive
                pos == ChainPosition(n)
                last == chain.levels[Len(chain.levels)].template IN
            /\ out[n].labeller # NoParent <=> (pos <= Len(chain.levels) \/ chain.wildcard)
            /\ out[n].label # <<>> <=> (pos <= Len(chain.levels) \/ chain.wildcard)
            /\ (chain.wildcard /\ pos > Len(chain.levels)) =>
                   /\ heap[out[n].labeller].template = last
                   /\ \E k \in 1..MaxElements :
                          out[n].label = last.prefix \o Format(last.counter_type, k)
                                            \o last.suffix

\* C15 witness: "-a-" labels depth 1 and not depth 2; in a later list
\* "-a-,*" labels depths 1, 2 and 3 with -a-
C15_Witness ==
    /\ Len(out) = 6
    /\ out[1].directive = ChainA /\ out[1].label = <<"-", "a", "-">>
    /\ out[2].level = 2 /\ out[2].labeller = NoParent
    /\ out[3] = Paragraph
    /\ out[4].directive = ChainAStar /\ out[4].label = <<"-", "a", "-">>
    /\ out[5].level = 2 /\ out[5].label = <<"-", "a", "-">>
    /\ out[6].level = 3 /\ out[6].label = <<"-", "a", "-">>

\* lists without nesting, no chain configured, with the directives "-a-" and
\* "-1-" of 'Numbering resets' in test_ordered_lists_directive
TopItemStep == Element(1, NoDirective, FALSE)

TopDirectiveStep == \E directive \in {ChainA, Chain1} : Element(1, directive, FALSE)

NextSiblings == TopItemStep \/ TopDirectiveStep \/ EndList

SpecSiblings == InitDirectives /\ [][NextSiblings]_vars

\* C16: an item that carries a label directive is numbered 1 under the
\* directive's template and the siblings after it count on from there
\* under that template (-a-, then -1-, -2- after the directive "-1-"); an
\* item of a list in which no directive has been given, with no chain
\* configured, is unlabelled.
C16_DirectiveRestartsSiblingNumbering ==
    \A n \in 1..Len(out) :
        out[n].level = 1 =>
            LET g == GoverningDirective(n) IN
            IF g = 0
            THEN out[n].labeller = NoParent /\ out[n].label = <<>>
            ELSE LET template == out[g].directive.levels[1].template IN
                 out[n].label = template.prefix
                                   \o Format(template.counter_type, n - g + 1)
                                   \o template.suffix

\* C16 witness: 'Numbering resets': -a-, -1-, -2-, a paragraph, and an
\* unlabelled item in the list after it
C16_Witness ==
    /\ Len(out) = 5
    /\ out[1].label = <<"-", "a", "-">>
    /\ out[2].directive = Chain1 /\ out[2].label = <<"-", "1", "-">>
    /\ out[3].directive = NoDirective /\ out[3].label = <<"-", "2", "-">>
    /\ out[4] = Paragraph
    /\ out[5].level = 1 /\ out[5].labeller = NoParent /\ out[5].label = <<>>

----------------------------------------------------------------------------
(* Two factories.  The same get requests are made of two LabellerFactory   *)
(* objects, of the second one any number of requests behind the first; a   *)
(* request names its parent by position among the Labellers the factory    *)
(* asked has constructed.                                                   *)

\* the Labellers in a factory's _labellers
Made(cache) == {cache[k] : k \in DOMAIN cache}

\* the p-th of them in construction order, None for p = 0
ParentOf(cache, p) ==
    IF p \in 1..Cardinality(Made(cache))
    THEN CHOOSE i \in Made(cache) : Cardinality({j \in Made(cache) : j <= i}) = p
    ELSE NoParent

\* LabellerFactory.__init__, lines 110-111: _next_id and _labellers are
\* attributes of the instance, so get on one factory works on its own
own_attributes_mut_class_level(own, other) == other

own_attributes(own, other) == own

FactoryA == [next_id |-> next_id, labellers |-> labellers]

\* get is called on the first factory
RequestA(element_type, template, p, count, css) ==
    LET mine == own_attributes(FactoryA, factory_b)
        r == get(heap, mine.next_id, mine.labellers, element_type, template,
                 ParentOf(labellers, p), count, css) IN
    /\ calls < MaxRequests
    /\ heap' = r.heap
    /\ next_id' = r.next_id
    /\ labellers' = r.labellers
    /\ ret' = r.ret
    /\ calls' = calls + 1
    /\ pending' = Append(pending, [element_type |-> element_type, template |-> template,
                                   parent |-> p, count |-> count, css |-> css])
    /\ UNCHANGED <<op, factory_b>>
    /\ UNCHANGED historyVars
    /\ UNCHANGED driverVars
    /\ UNCHANGED toolVars

\* the oldest request not yet made of the second factory is made of it
ReplayB ==
    /\ pending # <<>>
    /\ LET req == Head(pending)
           mine == own_attributes(factory_b, FactoryA)
           r == get(heap, mine.next_id, mine.labellers, req.element_type, req.template,
                    ParentOf(factory_b.labellers, req.parent), req.count, req.css) IN
       /\ heap' = r.heap
       /\ factory_b' = [next_id |-> r.next_id, labellers |-> r.labellers]
       /\ ret' = r.ret
    /\ pending' = Tail(pending)
    /\ UNCHANGED <<next_id, labellers, op, calls>>
    /\ UNCHANGED historyVars
    /\ UNCHANGED driverVars
    /\ UNCHANGED toolVars

RequestAStep ==
    \E element_type \in ElementTypes, template \in Templates,
       p \in 0..Cardinality(Made(labellers)), count \in Counts, css \in BOOLEAN :
        RequestA(element_type, template, p, count, css)

NextTwoFactories == RequestAStep \/ ReplayB

SpecTwoFactories == Init /\ [][NextTwoFactories]_vars

\* the stylesheet ids of the Labellers in a cache
IdsOf(h, cache) == {h[i].css_id : i \in Made(cache)} \ {NoCssId}

C18_Step ==
    /\ Made(labellers') \cap Made(factory_b'.labellers) = {}
    /\ IdsOf(heap', labellers') = 0..(next_id' - 1)
    /\ IdsOf(heap', factory_b'.labellers) = 0..(factory_b'.next_id - 1)
    /\ pending' = <<>> =>
           /\ factory_b'.next_id = next_id'
           /\ DOMAIN factory_b'.labellers = DOMAIN labellers'
           /\ \A k \in DOMAIN labellers' :
                  /\ heap'[factory_b'.labellers[k]].css_id = heap'[labellers'[k]].css_id
                  /\ heap'[factory_b'.labellers[k]].count = heap'[labellers'[k]].count
    /\ Len(pending') < Len(pending) =>
           /\ next_id' = next_id
           /\ labellers' = labellers
           /\ \A i \in Made(labellers) : heap'[i] = heap[i]
    /\ Len(pending') > Len(pending) =>
           /\ factory_b' = factory_b
           /\ \A i \in Made(factory_b.labellers) : heap'[i] = heap[i]

----------------------------------------------------------------------------
(* Claims about LabellerFactory.get *)

\* C1: for any sequence of get calls on one factory, two calls with the same
\* key (template counter type, css flag, prefix, suffix, ancestor counter
\* type / separator chain) return the very same Labeller, with css True or
\* False and however many calls lie in between: every key that was ever
\* requested has been answered with exactly one Labeller.
C1_SameKeySameLabeller ==
    \A k \in DOMAIN issued : Cardinality(issued[k]) = 1

\* C1 witness: a third or later call repeats the key of an earlier css=False call.
C1_Witness ==
    /\ op.name = "get" /\ op.hit /\ op.css = FALSE
    /\ calls >= 3
    /\ Cardinality(DOMAIN issued) >= 2

\* C2: get never returns the same Labeller for two requests whose ancestor
\* chains differ in some ancestor template (counter type, prefix, suffix or
\* separator): every Labeller has been returned for one ancestor template
\* chain only.
C2_DifferentLineageNeverShares ==
    \A i \in DOMAIN served : Cardinality(served[i]) <= 1

\* C3: a stylesheet id is allocated only on a cache miss with css=True; the
\* ids handed out are 0, 1, 2, ... in allocation order without gap or reuse;
\* a hit or a css=False request leaves the next id unchanged.
IdsInAllocationOrder(h, nid) ==
    LET withId == {i \in 1..Len(h) : h[i].css_id # NoCssId} IN
    /\ nid = Cardinality(withId)
    /\ \A i \in withId : h[i].css_id = Cardinality({j \in withId : j < i})

C3_IdsAllocated ==
    [][ /\ IdsInAllocationOrder(heap', next_id')
        /\ (next_id' # next_id <=> (op'.name = "get" /\ ~op'.hit /\ op'.css /\ calls' # calls))
        /\ next_id' # next_id =>
              /\ next_id' = next_id + 1
              /\ ret' = Len(heap')
              /\ heap'[ret'].css_id = next_id
        /\ Len(heap') > Len(heap) /\ next_id' = next_id =>
              heap'[Len(heap')].css_id = NoCssId ]_vars

\* C3 witness: ids 0 and 1 are out, and a css=False miss came after the first.
C3_Witness ==
    /\ next_id = 2
    /\ Len(heap) = 3
    /\ heap[2].css_id = NoCssId
    /\ heap[3].css_id = 1

\* C4: on every get, hit or miss, the returned Labeller's count is the
\* caller's count; with a parent, the returned Labeller is appended to that
\* parent's children; without one no children list changes.
C4_CountAndRegistration ==
    [][ op'.name = "get" /\ calls' # calls =>
          /\ heap'[ret'].count = op'.count
          /\ \A i \in 1..Len(heap) :
                heap'[i].children = IF i = op'.parent
                                    THEN Append(heap[i].children, ret')
                                    ELSE heap[i].children
          /\ \A i \in 1..Len(heap) : i # ret' => heap'[i].count = heap[i].count ]_vars

\* C4 witness: a hit with a parent overwrote a count and was appended as the
\* parent's second child.
C4_Witness ==
    /\ op.name = "get" /\ op.hit /\ op.parent # NoParent
    /\ op.count = 0
    /\ Len(heap[op.parent].children) = 2
    /\ heap[op.parent].children[2] = ret

\* C9: get_css_class is None exactly when the Labeller has no stylesheet id,
\* otherwise 'la-label' followed by the id, and the value never changes over
\* the Labeller's lifetime.
C9_CssClassStable ==
    [][ /\ \A i \in 1..Len(heap) : get_css_class(heap', i) = get_css_class(heap, i)
        /\ \A i \in 1..Len(heap') :
              /\ (get_css_class(heap', i) = PyNone) <=> (heap'[i].css_id = NoCssId)
              /\ heap'[i].css_id # NoCssId =>
                    get_css_class(heap', i) = <<"la-label">> \o DecStr(heap'[i].css_id) ]_vars

\* C9 witness: a Labeller with class la-label1 had its count changed and its
\* children reset.
C9_Witness ==
    /\ Len(heap) >= 2
    /\ \E i \in 1..Len(heap) :
          /\ get_css_class(heap, i) = <<"la-label", "1">>
          /\ heap[i].count = 1
    /\ op.name = "reset_children"

----------------------------------------------------------------------------
(* Claims about rendering *)

\* self, parent, grandparent, ... up to the root
RECURSIVE Chain(_, _)
Chain(h, self) ==
    IF self = NoParent THEN <<>> ELSE <<self>> \o Chain(h, h[self].parent)

Contains(s, sub) ==
    \E k \in 1..(Len(s) - Len(sub) + 1) : SubSeq(s, k, k + Len(sub) - 1) = sub

Occurrences(s, c) == Cardinality({k \in 1..Len(s) : s[k] = c})

\* the nearest Labeller at or above p that has a counter type
RECURSIVE NearestCounted(_, _)
NearestCounted(h, p) ==
    IF p = NoParent THEN NoParent
    ELSE IF h[p].template.counter_type # NoCounter THEN p
    ELSE NearestCounted(h, h[p].parent)

\* the core C5 describes: the formatted counts from root to self joined by
\* separators, the ancestors without a counter type left out
RECURSIVE SkippingCore(_, _)
SkippingCore(h, self) ==
    LET s == Format(h[self].template.counter_type, h[self].count)
        above == NearestCounted(h, h[self].parent) IN
    IF above = NoParent THEN s
    ELSE SkippingCore(h, above) \o h[self].template.separator \o s

\* C5: as_string is prefix + core + suffix, core being the formatted counts
\* from root to self joined by separators; an ancestor whose counter type is
\* none is skipped: no segment, no separator, and the ancestors above it
\* still appear.
C5_AsStringSkipsNoneAncestors ==
    \A i \in Objects :
        heap[i].template.counter_type # NoCounter =>
            as_string(heap, i) =
                heap[i].template.prefix \o SkippingCore(heap, i) \o heap[i].template.suffix

\* C6: a Labeller whose own counter type is none renders as exactly
\* prefix + suffix in as_string and has an empty core in as_css_expr, for
\* every count and every parent chain.
C6_NoneRendersPrefixSuffix ==
    \A i \in Objects :
        heap[i].template.counter_type = NoCounter =>
            /\ as_string(heap, i) = heap[i].template.prefix \o heap[i].template.suffix
            /\ as_css_expr_core(heap, i) = <<>>
            /\ as_css_expr(heap, i) =
                  Strip(as_css_str(heap[i].template.prefix) \o <<" ", " ">>
                        \o as_css_str(heap[i].template.suffix))

\* C6 witness: a Labeller without counter type, with count 1, under a parent
\* that has a counter type.
C6_Witness ==
    \E i \in Objects :
        /\ heap[i].template.counter_type = NoCounter
        /\ heap[i].count = 1
        /\ heap[i].parent # NoParent
        /\ heap[heap[i].parent].template.counter_type # NoCounter

\* the counter reference of a Labeller that has a stylesheet id
CounterRef(h, j) ==
    <<"counter(", "la-label">> \o DecStr(h[j].css_id)
    \o <<",", h[j].template.counter_type, ")">>

AllCounted(h, c) == \A n \in 1..Len(c) : h[c[n]].template.counter_type # NoCounter

Dynamic(h, c, m) ==
    \A n \in 1..m : /\ h[c[n]].css_id # NoCssId
                    /\ h[c[n]].template.counter_type # NoCounter

RECURSIVE ReadString(_)
ReadString(s) ==
    IF s = <<>> THEN [text |-> <<"unterminated">>, rest |-> <<>>]
    ELSE IF Head(s) = "\"" THEN [text |-> <<>>, rest |-> Tail(s)]
    ELSE IF Head(s) = "\\" /\ Len(s) >= 2
         THEN [text |-> <<s[2]>> \o ReadString(SubSeq(s, 3, Len(s))).text,
               rest |-> ReadString(SubSeq(s, 3, Len(s))).rest]
    ELSE [text |-> <<Head(s)>> \o ReadString(Tail(s)).text,
          rest |-> ReadString(Tail(s)).rest]

CounterValue(h, name, style) ==
    LET named == {j \in 1..Len(h) :
                    h[j].css_id # NoCssId /\ <<"la-label">> \o DecStr(h[j].css_id) = name} IN
    IF named = {} THEN <<"unknown counter">>
    ELSE Format(style, h[CHOOSE j \in named : TRUE].count)

RECURSIVE EvalCss(_, _)
EvalCss(h, e) ==
    IF e = <<>> THEN <<>>
    ELSE IF Head(e) = " " THEN EvalCss(h, Tail(e))
    ELSE IF Head(e) = "\"" THEN ReadString(Tail(e)).text \o EvalCss(h, ReadString(Tail(e)).rest)
    ELSE IF Head(e) = "counter(" /\ \E k \in 1..Len(e) : e[k] = ")"
         THEN LET close == CHOOSE k \in 1..Len(e) : e[k] = ")" /\ \A n \in 1..(k - 1) : e[n] # ")"
              IN  CounterValue(h, SubSeq(e, 2, close - 3), e[close - 1])
                  \o EvalCss(h, SubSeq(e, close + 1, Len(e)))
    ELSE <<"malformed">>

\* C8: evaluating as_css_expr with every stylesheet counter set to its
\* Labeller's count gives exactly as_string, in every state.
C8_CssExprEvaluatesToString ==
    \A i \in Objects : EvalCss(heap, as_css_expr(heap, i)) = as_string(heap, i)

\* C8 witness: a Labeller with a stylesheet id whose prefix and suffix need
\* escaping, under a parent rendered as a literal, both with count 1.
C8_Witness ==
    \E i \in Objects :
        /\ heap[i].css_id # NoCssId
        /\ heap[i].count = 1
        /\ heap[i].template.prefix = <<"\"">>
        /\ heap[i].template.suffix = <<"\\">>
        /\ heap[i].template.counter_type # NoCounter
        /\ heap[i].parent # NoParent
        /\ heap[heap[i].parent].css_id = NoCssId
        /\ heap[heap[i].parent].count = 1
        /\ heap[heap[i].parent].template.counter_type # NoCounter

----------------------------------------------------------------------------
(* Claims about errors and about the children lists *)

\* every Labeller from self up to the root has a count of at least 1
CountsPositive(h, self) == \A n \in 1..Len(Chain(h, self)) : h[Chain(h, self)[n]].count >= 1

\* C19: get never fails: in every reachable state and for every element
\* type, template, parent or None, count and css flag it returns a Labeller
\* that the cache then holds under the request's key; as_string and
\* as_css_expr raise no AttributeError on a Labeller whose counts, its own
\* and its ancestors', are at least 1.
C19_NoErrors ==
    /\ \A element_type \in ElementTypes, template \in Templates,
          parent \in {NoParent} \cup Objects, count \in Counts, css \in BOOLEAN :
           LET r == get(heap, next_id, labellers, element_type, template, parent, count, css) IN
           /\ r.ret \in 1..Len(r.heap)
           /\ r.key \in DOMAIN r.labellers
           /\ r.labellers[r.key] = r.ret
    /\ \A i \in Objects :
           CountsPositive(heap, i) =>
               /\ ~Contains(as_string(heap, i), AttributeError)
               /\ ~Contains(as_css_expr(heap, i), AttributeError)

\* C19 witness: a cache hit has returned a Labeller with a none-typed
\* template under a parent, all counts 1
C19_Witness ==
    /\ op.name = "get" /\ op.hit
    /\ heap[ret].parent # NoParent
    /\ heap[ret].template.counter_type = NoCounter
    /\ CountsPositive(heap, ret)

\* what the latest operation has registered on Labeller i
Registered(i) ==
    IF op'.name = "get" /\ op'.parent = i THEN <<ret'>>
    ELSE IF op'.name = "add_child" /\ op'.self = i THEN <<op'.child>>
    ELSE <<>>

C20_Step ==
    \A i \in 1..Len(heap') :
        LET before == IF i <= Len(heap) THEN heap[i].children ELSE <<>> IN
        heap'[i].children =
            IF op'.name = "reset_children" /\ op'.self = i THEN <<>>
            ELSE before \o Registered(i)

\* C20: a Labeller's children list is the sequence of the Labellers
\* registered on it, by add_child or by get with it as parent, since its
\* last reset_children or its creation: every registration appends one
\* entry at the end, duplicates included, reset_children empties the list,
\* and nothing else changes it.
C20_ChildrenAreRegistrations == [][C20_Step]_vars

\* C20 witness: get has registered the same Labeller on a parent a second
\* time, and both entries are kept
C20_Witness ==
    /\ op.name = "get" /\ op.hit /\ op.parent # NoParent
    /\ heap[op.parent].children = <<ret, ret>>

----------------------------------------------------------------------------
(* Counts rendered in letters: get is called with the template of "-a-",   *)
(* for a root and for a child of it, with any count up to MaxAlphaCount.   *)

AlphaTemplate == ChainA.levels[1].template

AlphaStep ==
    /\ calls < MaxAlphaCalls
    /\ \E parent \in {NoParent} \cup Objects, count \in 1..MaxAlphaCount :
          Get("OL", AlphaTemplate, parent, count, FALSE)

NextAlpha == AlphaStep

SpecAlpha == Init /\ [][NextAlpha]_vars

\* the letters of a Labeller's ancestors, outermost first
RECURSIVE AncestorLetters(_)
AncestorLetters(i) ==
    IF i = NoParent THEN <<>>
    ELSE AncestorLetters(heap[i].parent) \o Format("lower-alpha", heap[i].count)

\* C21: lower-alpha is bijective base 26: a Labeller with the template of
\* "-a-" renders counts 1..26 as a..z, 27 as aa, 28 as ab, 52 as az and 53
\* as ba, between its prefix and suffix and after its ancestors' letters, and
\* two Labellers with different counts never render the same letters.
C21_AlphaIsBijectiveBase26 ==
    \A i \in Objects :
        LET n == heap[i].count
            letters == Format("lower-alpha", n) IN
        /\ as_string(heap, i) =
               <<"-">> \o AncestorLetters(heap[i].parent) \o letters \o <<"-">>
        /\ n \in 1..26 => letters = <<Letters[n]>>
        /\ n = 27 => letters = <<"a", "a">>
        /\ n = 28 => letters = <<"a", "b">>
        /\ n = 52 => letters = <<"a", "z">>
        /\ n = 53 => letters = <<"b", "a">>
        /\ \A j \in Objects :
               heap[j].count # n => Format("lower-alpha", heap[j].count) # letters

\* C21 witness: a root with count 27 and its child with count 53 render
\* -aa- and -aaba-
C21_Witness ==
    /\ Len(heap) = 2
    /\ heap[1].count = 27 /\ as_string(heap, 1) = <<"-", "a", "a", "-">>
    /\ heap[2].parent = 1 /\ heap[2].count = 53
    /\ as_string(heap, 2) = <<"-", "a", "a", "b", "a", "-">>

----------------------------------------------------------------------------
(* Requests that differ in what the key leaves out: get is called for      *)
(* ordered and unordered lists, with two templates that differ only in     *)
(* their separator.                                                        *)

ListTypes == {"OL", "UL"}

SeparatorTemplates ==
    { LabelTemplate("decimal", <<>>, <<>>, <<".">>),
      LabelTemplate("decimal", <<>>, <<>>, <<"-">>) }

TypesStep ==
    /\ calls < MaxTypeCalls
    /\ \E element_type \in ListTypes, template \in SeparatorTemplates,
          parent \in {NoParent} \cup Objects, css \in BOOLEAN :
          Get(element_type, template, parent, 0, css)

NextTypes == TypesStep

SpecTypes == Init /\ [][NextTypes]_vars

\* C26: the Labeller that get returns, on a miss and on a hit alike, has
\* the requested element type in lower case, the requested template and
\* the requested parent.
C26_ReturnedMatchesRequest ==
    op.name = "get" =>
        /\ heap[ret].element_type = Lower(op.element_type)
        /\ heap[ret].template = op.template
        /\ heap[ret].parent = op.parent

----------------------------------------------------------------------------
(* Claims about the factory's state *)

\* C27: a Labeller that get has returned for a css=True request has a class
\* name, one returned for a css=False request has None; no two distinct
\* Labellers in the cache have the same class name (None is not a class
\* name); and _next_id is the number of Labellers constructed with a
\* stylesheet id.
C27_ClassNamesAndNextId ==
    /\ \A k \in DOMAIN issued : \A i \in issued[k] :
           (get_css_class(heap, i) # PyNone) <=> k[2]
    /\ \A i \in Made(labellers) : \A j \in Made(labellers) :
           (i # j /\ get_css_class(heap, i) # PyNone) =>
               get_css_class(heap, i) # get_css_class(heap, j)
    /\ next_id = Cardinality({i \in Objects : heap[i].css_id # NoCssId})

\* C27 witness: two Labellers with class names and one without, the latest
\* call a hit
C27_Witness ==
    /\ op.name = "get" /\ op.hit
    /\ next_id = 2
    /\ Len(heap) = 3
    /\ \E i \in Objects : get_css_class(heap, i) = PyNone

C28_Step ==
    \A i \in 1..Len(heap') :
        /\ heap'[i].parent \in 0..(i - 1)
        /\ i <= Len(heap) => heap'[i].parent = heap[i].parent
        /\ Len(Chain(heap', i)) <= i
        /\ Len(ancestor_keys(heap', heap'[i].template, heap'[i].parent)) <= 2 * (i - 1)

\* C28: the parent of a Labeller is fixed when it is constructed and was
\* constructed before it, so parent links never form a cycle: the walk from
\* any Labeller to its root, which get makes to build the key and as_string
\* and as_css_expr make to render, visits at most as many Labellers as
\* were constructed up to it.
C28_ParentsAcyclic == [][C28_Step]_vars

\* C28 witness: a chain of three Labellers, and get has just walked it
C28_Witness ==
    /\ op.name = "get" /\ op.parent # NoParent
    /\ Len(Chain(heap, ret)) = 3

\* a request with the signature Labeller c was constructed for
SameSignature(h, nid, cache, c) ==
    get(h, nid, cache, "OL", h[c].template, h[c].parent, h[c].count,
        h[c].css_id # NoCssId)

C29_Step ==
    op'.name = "reset_children" =>
        LET self == op'.self IN
        /\ heap' = [heap EXCEPT ![self].children = <<>>]
        /\ heap'[self].count = heap[self].count
        /\ \A n \in 1..Len(heap[self].children) :
               LET c == heap[self].children[n] IN
               /\ heap'[c].count = heap[c].count
               /\ heap'[c].parent = heap[c].parent
               /\ heap'[c].css_id = heap[c].css_id
               /\ c # self => heap'[c] = heap[c]
               /\ SameSignature(heap', next_id', labellers', c).ret = c
               /\ SameSignature(heap', next_id', labellers', c).hit
        /\ labellers' = labellers
        /\ next_id' = next_id

\* C29: reset_children empties the receiver's children list and changes
\* nothing else: not the receiver's count, not the count, parent or
\* stylesheet id of a former child, not the cache and not _next_id; a get
\* with a former child's signature afterwards is a hit that returns that
\* same Labeller.
C29_ResetChildrenFrame == [][C29_Step]_vars

\* C29 witness: reset_children has emptied the list of a Labeller whose
\* count is 1 and which has a child in the cache with count 1
C29_Witness ==
    /\ op.name = "reset_children"
    /\ heap[op.self].children = <<>>
    /\ heap[op.self].count = 1
    /\ \E c \in Objects : heap[c].parent = op.self /\ heap[c].count = 1

----------------------------------------------------------------------------
(* Citations: src/lamarkdown/ext/pybtex.py                                 *)
(*                                                                         *)
(* A document is the sequence of its bracketed citation groups, each as    *)
(* GROUP_REGEX and CITE_REGEX parse it: the text before the first '@', and *)
(* then the citations, each a key (in braces or not) and the text after it.*)
(* Text is a sequence of lexemes.                                          *)

\* the keys of bib_data.entries
Entries == {"refA", "refB"}

\* the keys a document cites: those of the database and one that is not in it
CitedNames == Entries \cup {"refX"}

\* group_match.group('pre')
PreTexts == {<<>>, <<"see ">>}

\* cite_match.group('post')
PostTexts == {<<>>, <<", p. 5">>}

\* what CITE_REGEX matches
Cites == [key : CitedNames, braces : BOOLEAN, post : PostTexts]

\* what GROUP_REGEX matches: ( CITE_REGEX )+ after the pre text
Groups == [pre : PreTexts,
           main : UNION {[1..n -> Cites] : n \in 1..MaxCites}]

\* the hyperlinks setting
Hyperlinks == {"both", "forward", "back", "none"}

\* an attribute, text or element that is absent
None == "None"
NoElement == [tag |-> None, text |-> <<>>, children |-> <<>>]

\* cite_match.group(): the citation as written
cite_source(c) ==
    (IF c.braces THEN <<"@", "{", c.key, "}">> ELSE <<"@", c.key>>) \o c.post

\* group_match.group('main')
RECURSIVE main_source(_)
main_source(cites) ==
    IF cites = <<>> THEN <<>>
    ELSE cite_source(Head(cites)) \o main_source(Tail(cites))

\* group_match.group(): the group as written
group_source(g) == <<"[">> \o g.pre \o main_source(g.main) \o <<"]">>

\* a1 and a2: the text goes after the last span, or after the pre text
append_last(elem, text) ==
    IF elem.children = <<>>
    THEN [elem EXCEPT !.text = @ \o text]
    ELSE [elem EXCEPT !.children[Len(elem.children)].tail = @ \o text]

\* the span of a citation whose key is in the database
span_of(c) ==
    [tag |-> "span", key |-> c.key, id |-> <<>>, text |-> <<>>, href |-> <<>>,
     tail |-> c.post]

\* variants of the loop of handleMatch
RECURSIVE handleMatch_loop_mut_drops_unmatched(_, _, _)
handleMatch_loop_mut_drops_unmatched(cites, i, st) ==
    IF i > Len(cites) THEN st
    ELSE IF cites[i].key \in Entries
         THEN handleMatch_loop_mut_drops_unmatched(cites, i + 1,
                  [any_valid_citations |-> TRUE,
                   cited_keys |-> Append(st.cited_keys, cites[i].key),
                   cite_elem |-> [st.cite_elem EXCEPT
                                    !.children = Append(@, span_of(cites[i]))]])
         ELSE handleMatch_loop_mut_drops_unmatched(cites, i + 1, st)

\* the loop of handleMatch over the citations of the group
RECURSIVE handleMatch_loop(_, _, _)
handleMatch_loop(cites, i, st) ==
    IF i > Len(cites) THEN st
    ELSE IF cites[i].key \in Entries
         THEN handleMatch_loop(cites, i + 1,
                  [any_valid_citations |-> TRUE,
                   cited_keys |-> Append(st.cited_keys, cites[i].key),
                   cite_elem |-> [st.cite_elem EXCEPT
                                    !.children = Append(@, span_of(cites[i]))]])
         ELSE handleMatch_loop(cites, i + 1,
                  [st EXCEPT !.cite_elem = append_last(@, cite_source(cites[i]))])

\* CitationInlineProcessor.handleMatch: the element returned (or None) and cited_keys
handleMatch(g, keys) ==
    LET st == handleMatch_loop(g.main, 1,
                  [any_valid_citations |-> FALSE,
                   cited_keys |-> keys,
                   cite_elem |-> [tag |-> "cite", text |-> g.pre, children |-> <<>>]])
    IN  [elem |-> IF st.any_valid_citations THEN st.cite_elem ELSE NoElement,
         cited_keys |-> st.cited_keys]

\* the keys in order of first occurrence
RECURSIVE remove_duplicates(_)
remove_duplicates(keys) ==
    IF keys = <<>> THEN <<>>
    ELSE LET front == remove_duplicates(SubSeq(keys, 1, Len(keys) - 1))
             last == keys[Len(keys)]
         IN  IF \E i \in 1..Len(front) : front[i] = last THEN front
             ELSE Append(front, last)

\* bib_style.format_bibliography: one entry for each distinct key, labelled 1, 2, ...
format_bibliography(keys) ==
    LET distinct == remove_duplicates(keys)
    IN  [i \in 1..Len(distinct) |-> [key |-> distinct[i], label |-> DecStr(i)]]

\* entries[key].label, for a key that has an entry
label_of(formatted_biblio, key) ==
    LET i == CHOOSE j \in 1..Len(formatted_biblio) : formatted_biblio[j].key = key
    IN  formatted_biblio[i].label

\* f'pybtexcite:{label}-{n}'
cite_id(label, n) == <<"pybtexcite:">> \o label \o <<"-">> \o DecStr(n)

\* f'#pybtexref:{label}'
ref_href(label) == <<"#pybtexref:">> \o label

\* n_citations.get(label, 0)
n_citations_get(n_citations, label) ==
    IF label \in DOMAIN n_citations THEN n_citations[label] ELSE 0

\* n_citations[label] = n
n_citations_set(n_citations, label, n) ==
    [l \in DOMAIN n_citations \cup {label} |->
        IF l = label THEN n ELSE n_citations[l]]

\* variants of the labelling of one span
label_child_mut_counts_from_zero(child, formatted_biblio, n_citations, forward) ==
    LET label == label_of(formatted_biblio, child.key)
        n == n_citations_get(n_citations, label) + 1
    IN  [child |-> [child EXCEPT !.key = None,
                                 !.id = cite_id(label, n - 1),
                                 !.text = label,
                                 !.tag = IF forward THEN "a" ELSE @,
                                 !.href = IF forward THEN ref_href(label) ELSE @],
         n_citations |-> n_citations_set(n_citations, label, n)]

\* one span of a <cite>: its key gives way to the label, an id and perhaps a link
label_child(child, formatted_biblio, n_citations, forward) ==
    LET label == label_of(formatted_biblio, child.key)
        n == n_citations_get(n_citations, label) + 1
    IN  [child |-> [child EXCEPT !.key = None,
                                 !.id = cite_id(label, n),
                                 !.text = label,
                                 !.tag = IF forward THEN "a" ELSE @,
                                 !.href = IF forward THEN ref_href(label) ELSE @],
         n_citations |-> n_citations_set(n_citations, label, n)]

\* the children of one <cite>, in order
RECURSIVE label_children(_, _, _, _, _)
label_children(children, j, formatted_biblio, n_citations, forward) ==
    IF j > Len(children) THEN [children |-> children, n_citations |-> n_citations]
    ELSE IF children[j].tag = "span" /\ children[j].key # None
         THEN LET r == label_child(children[j], formatted_biblio, n_citations, forward)
              IN  label_children([children EXCEPT ![j] = r.child], j + 1,
                                 formatted_biblio, r.n_citations, forward)
         ELSE label_children(children, j + 1, formatted_biblio, n_citations, forward)

\* root.iter(tag = 'cite'): every <cite> in document order
RECURSIVE label_cites(_, _, _, _, _)
label_cites(elems, i, formatted_biblio, n_citations, forward) ==
    IF i > Len(elems) THEN [root |-> elems, n_citations |-> n_citations]
    ELSE IF elems[i].tag = "cite"
         THEN LET r == label_children(elems[i].children, 1, formatted_biblio,
                                      n_citations, forward)
                  last == Len(r.children)
                  elem == [elems[i] EXCEPT
                             !.text = <<"[">> \o @,
                             !.children = [r.children EXCEPT
                                             ![last].tail = @ \o <<"]">>]]
              IN  label_cites([elems EXCEPT ![i] = elem], i + 1, formatted_biblio,
                              r.n_citations, forward)
         ELSE label_cites(elems, i + 1, formatted_biblio, n_citations, forward)

\* the text of the single, unnumbered back-link
BackArrow == <<"&larrhk;">>

\* f'#pybtexcite:{label}-{i}'
cite_href(label, i) == <<"#">> \o cite_id(label, i)

\* variants of the back-links of one <dd>
back_links_mut_always_numbered(label, n_cites) ==
    [numbered |-> TRUE,
     links |-> [i \in 1..n_cites |-> [href |-> cite_href(label, i), text |-> DecStr(i)]]]

\* the back-links of one <dd>, given n_citations[label]
back_links(label, n_cites) ==
    IF n_cites = 1
    THEN [numbered |-> FALSE,
          links |-> <<[href |-> cite_href(label, 1), text |-> BackArrow]>>]
    ELSE [numbered |-> TRUE,
          links |-> [i \in 1..n_cites |->
                        [href |-> cite_href(label, i), text |-> DecStr(i)]]]

\* a <dd> without back-links
NoLinks == [numbered |-> FALSE, links |-> <<>>]

\* PybtexTreeProcessor.run: the tree and the bibliography it leaves
run(elems, keys, hyperlinks) ==
    IF Len(keys) = 0 THEN [root |-> elems, biblio |-> NoBiblio]
    ELSE
    LET formatted_biblio == format_bibliography(keys)
        create_forward_links == hyperlinks \in {"both", "forward"}
        create_back_links == hyperlinks \in {"both", "back"}
        cites == label_cites(elems, 1, formatted_biblio, [l \in {} |-> 0],
                             create_forward_links)
        n_citations == cites.n_citations
        labels == {formatted_biblio[i].label : i \in 1..Len(formatted_biblio)}
    IN  IF create_back_links /\ ~(labels \subseteq DOMAIN n_citations)
        THEN [root |-> cites.root, biblio |-> [status |-> "KeyError", entries |-> <<>>]]
        ELSE [root |-> cites.root,
              biblio |->
                [status |-> "done",
                 entries |->
                   [i \in 1..Len(formatted_biblio) |->
                      [key |-> formatted_biblio[i].key,
                       label |-> formatted_biblio[i].label,
                       back |-> IF create_back_links
                                THEN back_links(formatted_biblio[i].label,
                                                n_citations[formatted_biblio[i].label])
                                ELSE NoLinks]]]]

(* The conversions of one Markdown instance *)

\* markdown.Markdown(extensions = ['lamarkdown.ext.pybtex'], ...): extendMarkdown
extendMarkdown(hyperlinks) ==
    /\ ~md.built
    /\ md' = [built |-> TRUE, hyperlinks |-> hyperlinks, phase |-> "idle",
              conversions |-> 0]
    /\ cited_keys' = <<>>
    /\ UNCHANGED <<doc, root, biblio>>
    /\ UNCHANGED <<labelVars, apiVars, lamdVars>>

\* md.convert(...) begins: a new tree; the extension registers nothing to reset
convert ==
    /\ md.built
    /\ md.phase \in {"idle", "done"}
    /\ md.conversions < MaxConversions
    /\ md' = [md EXCEPT !.phase = "inline", !.conversions = @ + 1]
    /\ doc' = <<>>
    /\ root' = <<>>
    /\ biblio' = NoBiblio
    /\ UNCHANGED cited_keys
    /\ UNCHANGED <<labelVars, apiVars, lamdVars>>

\* the inline processor meets the next group of the document
InlineStep(g) ==
    /\ md.phase = "inline"
    /\ Len(doc) < MaxGroups
    /\ LET r == handleMatch(g, cited_keys)
       IN  /\ doc' = Append(doc, g)
           /\ root' = Append(root,
                         IF r.elem = NoElement
                         THEN [tag |-> "text", text |-> group_source(g),
                               children |-> <<>>]
                         ELSE r.elem)
           /\ cited_keys' = r.cited_keys
    /\ UNCHANGED <<md, biblio>>
    /\ UNCHANGED <<labelVars, apiVars, lamdVars>>

\* the tree processor runs, after the inline processors
RunTree ==
    /\ md.phase = "inline"
    /\ LET r == run(root, cited_keys, md.hyperlinks)
       IN  /\ root' = r.root
           /\ biblio' = r.biblio
    /\ md' = [md EXCEPT !.phase = "done"]
    /\ UNCHANGED <<doc, cited_keys>>
    /\ UNCHANGED <<labelVars, apiVars, lamdVars>>

(* One document *)
ExtendMarkdownStep == \E hyperlinks \in Hyperlinks : extendMarkdown(hyperlinks)
ConvertOnceStep == md.conversions = 0 /\ convert
HandleMatchStep == \E g \in Groups : InlineStep(g)
RunStep == RunTree

NextPybtex ==
    \/ ExtendMarkdownStep
    \/ ConvertOnceStep
    \/ HandleMatchStep
    \/ RunStep

SpecPybtex == Init /\ [][NextPybtex]_vars

----------------------------------------------------------------------------
(* Claims about citations *)

\* where a span stands in the flattened content of a <cite>
SpanMark == "<span>"

\* the content of an element, flattened: its text, then each child and its tail
RECURSIVE FlatChildren(_)
FlatChildren(children) ==
    IF children = <<>> THEN <<>>
    ELSE <<SpanMark>> \o Head(children).tail \o FlatChildren(Tail(children))

FlatContent(elem) == elem.text \o FlatChildren(elem.children)

\* the group as written, with each citation whose key is in the database marked
RECURSIVE MarkedMain(_)
MarkedMain(cites) ==
    IF cites = <<>> THEN <<>>
    ELSE (IF Head(cites).key \in Entries
          THEN <<SpanMark>> \o Head(cites).post
          ELSE cite_source(Head(cites))) \o MarkedMain(Tail(cites))

\* the keys of the group that are in the database, in order
RECURSIVE MatchingKeys(_)
MatchingKeys(cites) ==
    IF cites = <<>> THEN <<>>
    ELSE (IF Head(cites).key \in Entries THEN <<Head(cites).key>> ELSE <<>>)
         \o MatchingKeys(Tail(cites))

\* the keys of the whole document that are in the database, in order
RECURSIVE DocKeys(_)
DocKeys(groups) ==
    IF groups = <<>> THEN <<>>
    ELSE MatchingKeys(Head(groups).main) \o DocKeys(Tail(groups))

\* C22: once the inline processor has handled the groups of a document, a
\* group is a <cite> element exactly when one of its keys is in the
\* database; the <cite> holds one span for each key that is in the database
\* and, as text in the same places as written, everything else including
\* the keys that are not; a group without a key of the database remains the
\* text it was, and cited_keys holds the database's keys cited, and no more.
C22_CiteIffSomeKeyMatches ==
    (md.phase = "inline") =>
        /\ Len(root) = Len(doc)
        /\ \A i \in 1..Len(doc) :
              LET g == doc[i]
                  matches == \E j \in 1..Len(g.main) : g.main[j].key \in Entries
              IN  /\ (root[i].tag = "cite") <=> matches
                  /\ matches =>
                        /\ FlatContent(root[i]) = g.pre \o MarkedMain(g.main)
                        /\ [j \in 1..Len(root[i].children) |-> root[i].children[j].key]
                              = MatchingKeys(g.main)
                  /\ ~matches =>
                        /\ root[i].tag = "text"
                        /\ root[i].text = group_source(g)
                        /\ root[i].children = <<>>
        /\ cited_keys = DocKeys(doc)

\* a document with a group that mixes keys in and out of the database, the
\* key that is not in it coming first, and a group with no key of the database
C22_Witness ==
    /\ md.phase = "inline"
    /\ \E i \in 1..Len(doc) :
          /\ root[i].tag = "cite"
          /\ Len(doc[i].main) = 2
          /\ doc[i].main[1].key \notin Entries
          /\ doc[i].main[1].braces
    /\ \E i \in 1..Len(doc) : root[i].tag = "text"

\* the spans and links of the <cite> elements, in document order
RECURSIVE Citations(_)
Citations(elems) ==
    IF elems = <<>> THEN <<>>
    ELSE (IF Head(elems).tag = "cite" THEN Head(elems).children ELSE <<>>)
         \o Citations(Tail(elems))

\* how many of the first p citations of the document cite this key
CitedSoFar(keys, p, key) == Cardinality({q \in 1..p : keys[q] = key})

\* C23: after the tree processor has run on a document with citations, the
\* k-th citation of a reference, in document order, carries the label L of
\* the reference's entry and the id pybtexcite:L-k; it is a link to
\* #pybtexref:L exactly when hyperlinks is both or forward; the entry has
\* back-links exactly when hyperlinks is both or back, and then they lead to
\* #pybtexcite:L-1 .. L-n for the n citations of the reference: one link
\* without a number when n = 1, and links numbered 1..n otherwise.
C23_CitationIdsAndLinks ==
    (md.phase = "done" /\ cited_keys # <<>>) =>
        LET keys == DocKeys(doc)
            cites == Citations(root)
            forward == md.hyperlinks \in {"both", "forward"}
            back == md.hyperlinks \in {"both", "back"}
        IN  /\ biblio.status = "done"
            /\ Len(cites) = Len(keys)
            /\ \A p \in 1..Len(keys) :
                  \E e \in 1..Len(biblio.entries) :
                      LET L == biblio.entries[e].label
                      IN  /\ biblio.entries[e].key = keys[p]
                          /\ cites[p].text = L
                          /\ cites[p].id = <<"pybtexcite:">> \o L \o <<"-">>
                                              \o DecStr(CitedSoFar(keys, p, keys[p]))
                          /\ forward => /\ cites[p].tag = "a"
                                        /\ cites[p].href = <<"#pybtexref:">> \o L
                          /\ ~forward => /\ cites[p].tag = "span"
                                         /\ cites[p].href = <<>>
            /\ \A e \in 1..Len(biblio.entries) :
                  LET L == biblio.entries[e].label
                      n == CitedSoFar(keys, Len(keys), biblio.entries[e].key)
                      links == biblio.entries[e].back.links
                  IN  /\ n >= 1
                      /\ ~back => links = <<>>
                      /\ back =>
                            /\ Len(links) = n
                            /\ \A i \in 1..n :
                                  /\ links[i].href = <<"#", "pybtexcite:">> \o L \o <<"-">>
                                                        \o DecStr(i)
                                  /\ \E p \in 1..Len(cites) :
                                        <<"#">> \o cites[p].id = links[i].href
                                  /\ links[i].text = IF n = 1 THEN BackArrow
                                                     ELSE DecStr(i)
                            /\ biblio.entries[e].back.numbered <=> (n # 1)

\* with links both ways, a reference cited three times and one cited once
C23_Witness ==
    /\ md.phase = "done"
    /\ md.hyperlinks = "both"
    /\ biblio.status = "done"
    /\ \E e \in 1..Len(biblio.entries) : Len(biblio.entries[e].back.links) = 3
    /\ \E e \in 1..Len(biblio.entries) : ~biblio.entries[e].back.numbered
    /\ \E p \in 1..Len(Citations(root)) :
          Citations(root)[p].id = <<"pybtexcite:", "1", "-", "3">>

----------------------------------------------------------------------------
(* Several documents converted by one Markdown instance *)

\* groups of one citation and no other text: [@refA], [@refB], [@refX]
SimpleGroups ==
    {g \in Groups : /\ g.pre = <<>>
                    /\ Len(g.main) = 1
                    /\ ~g.main[1].braces
                    /\ g.main[1].post = <<>>}

ConvertStep == convert
SimpleMatchStep == \E g \in SimpleGroups : InlineStep(g)

NextConversions ==
    \/ ExtendMarkdownStep
    \/ ConvertStep
    \/ SimpleMatchStep
    \/ RunStep

SpecConversions == Init /\ [][NextConversions]_vars

\* the keys of the database that the document cites
CitedInDoc == {DocKeys(doc)[p] : p \in 1..Len(DocKeys(doc))}

\* C30: whenever the tree processor has run in a conversion, the first or a
\* later one of the same Markdown instance, it has not failed, the
\* bibliography has an entry for exactly the references the document of
\* this conversion cites, and every entry has a citation in this document.
C30_ConversionsIndependent ==
    (md.phase = "done") =>
        /\ biblio.status # "KeyError"
        /\ {biblio.entries[e].key : e \in 1..Len(biblio.entries)} = CitedInDoc
        /\ \A e \in 1..Len(biblio.entries) :
              \E p \in 1..Len(Citations(root)) :
                  Citations(root)[p].text = biblio.entries[e].label

----------------------------------------------------------------------------
(* The build API: src/lamarkdown/lib/api_impl.py                           *)
(*                                                                         *)
(* A configuration value is plain or an ExtendableValue.  Either is a      *)
(* record of the values it has been given so far (parts), so that what     *)
(* ExtendableValue.extend computes from them is left open.                 *)

\* extension names and configuration keys, as in test_extension_config
ExtensionNames == {"smarty", "toc"}
ConfigKeys == {"smart_dashes", "smart_quotes"}

\* a plain value
Plain(v) == [extendable |-> FALSE, parts |-> <<v>>, join |-> ""]

\* ApiImpl.extendable(value, join): ExtendableValue(value, join)
extendable(value, join) == [extendable |-> TRUE, parts |-> value.parts, join |-> join]

\* the values a build file passes
ConfigValues == {Plain("True"), Plain("False"), extendable(Plain("a"), ",")}

\* the keyword arguments of one call: some keys, each with a value
Configs == UNION {[ks -> ConfigValues] : ks \in SUBSET ConfigKeys}

\* ExtendableValue.extend(value): the value is added to those given so far
extend(old_value, value) == [old_value EXCEPT !.parts = @ \o value.parts]

\* variants of the merge of one keyword argument
merge_mut_replaces(all_config, key, value) ==
    [k \in DOMAIN all_config \cup {key} |-> IF k = key THEN value ELSE all_config[k]]

\* the body of the loop over config.items(): one keyword argument is merged
merge(all_config, key, value) ==
    IF key \in DOMAIN all_config
    THEN LET old_value == all_config[key]
         IN  IF old_value.extendable
             THEN [all_config EXCEPT ![key] = extend(old_value, value)]
             ELSE IF value.extendable
                  THEN [all_config EXCEPT
                          ![key] = extend(extendable(old_value, value.join), value)]
                  ELSE [all_config EXCEPT ![key] = value]
    ELSE [k \in DOMAIN all_config \cup {key} |->
             IF k = key THEN value ELSE all_config[k]]

\* the loop over the keyword arguments; the keys are distinct, so their order is immaterial
RECURSIVE merge_all(_, _, _)
merge_all(all_config, kwargs, keys) ==
    IF keys = {} THEN all_config
    ELSE LET key == CHOOSE k \in keys : TRUE
         IN  merge_all(merge(all_config, key, kwargs[key]), kwargs, keys \ {key})

\* ApiImpl.__call__ with one extension name: la(name, **config)
__call__(name, kwargs) ==
    /\ api_op.count < MaxApiCalls
    /\ LET known == name \in DOMAIN named_extensions
           d == IF known THEN named_extensions[name] ELSE Len(dicts) + 1
           all_config == IF known THEN dicts[d] ELSE [k \in {} |-> Plain("")]
           merged == merge_all(all_config, kwargs, DOMAIN kwargs)
       IN  /\ named_extensions' =
                 [n \in DOMAIN named_extensions \cup {name} |->
                     IF n = name THEN d ELSE named_extensions[n]]
           /\ dicts' = IF known THEN [dicts EXCEPT ![d] = merged]
                                 ELSE Append(dicts, merged)
           /\ ret_config' = d
    /\ api_op' = [kind |-> "call", name |-> name, config |-> kwargs,
                  count |-> api_op.count + 1]
    /\ UNCHANGED <<labelVars, pybtexVars, lamdVars>>

\* cfg[key] = value, on the dict the latest call returned
__setitem__(key, value) ==
    /\ api_op.count < MaxApiCalls
    /\ ret_config # 0
    /\ dicts' = [dicts EXCEPT ![ret_config] =
                    [k \in DOMAIN @ \cup {key} |-> IF k = key THEN value ELSE @[k]]]
    /\ api_op' = [kind |-> "setitem", name |-> api_op.name,
                  config |-> [k \in {key} |-> value], count |-> api_op.count + 1]
    /\ UNCHANGED <<named_extensions, ret_config>>
    /\ UNCHANGED <<labelVars, pybtexVars, lamdVars>>

CallStep == \E name \in ExtensionNames, kwargs \in Configs : __call__(name, kwargs)
SetItemStep == \E key \in ConfigKeys, value \in ConfigValues : __setitem__(key, value)

NextApi ==
    \/ CallStep
    \/ SetItemStep

SpecApi == Init /\ [][NextApi]_vars

----------------------------------------------------------------------------
(* Claims about the build API *)

\* the dict stored for the name of the latest call before this step, or none
StoredBefore(name) ==
    IF name \in DOMAIN named_extensions THEN dicts[named_extensions[name]]
    ELSE [k \in {} |-> Plain("")]

\* what a call leaves alone and whom it returns: the stored dict of the name
\* (a new one at the first call), every other name and dict, and every key
\* the call does not mention
CallFrame ==
    LET name == api_op'.name
        kwargs == api_op'.config
        before == StoredBefore(name)
    IN  /\ name \in DOMAIN named_extensions'
        /\ ret_config' = named_extensions'[name]
        /\ name \in DOMAIN named_extensions => ret_config' = named_extensions[name]
        /\ name \notin DOMAIN named_extensions => ret_config' = Len(dicts) + 1
        /\ \A n \in DOMAIN named_extensions :
              named_extensions'[n] = named_extensions[n]
        /\ \A i \in 1..Len(dicts) : i # ret_config' => dicts'[i] = dicts[i]
        /\ DOMAIN dicts'[ret_config'] = DOMAIN before \cup DOMAIN kwargs
        /\ \A key \in DOMAIN before \ DOMAIN kwargs :
              dicts'[ret_config'][key] = before[key]

\* an earlier value, extended by a later one
Extended(earlier, later, now) ==
    /\ now.extendable
    /\ now.parts = earlier.parts \o later.parts

\* a write into the returned dict is a write into the configuration stored
\* for the name of the latest call, and changes nothing else
SetItemFrame ==
    LET name == api_op'.name
        key == CHOOSE k \in DOMAIN api_op'.config : TRUE
    IN  /\ name \in DOMAIN named_extensions'
        /\ named_extensions' = named_extensions
        /\ dicts'[named_extensions'[name]][key] = api_op'.config[key]
        /\ \A i \in 1..Len(dicts) :
              \A k \in DOMAIN dicts[i] :
                  (i # named_extensions[name] \/ k # key) => dicts'[i][k] = dicts[i][k]

\* the step of C24 as worded: a plain value replaces whatever was stored
C24_Step_AsWorded ==
    /\ (api_op'.count = api_op.count + 1 /\ api_op'.kind = "call") =>
          /\ CallFrame
          /\ \A key \in DOMAIN api_op'.config :
                LET value == api_op'.config[key]
                    before == StoredBefore(api_op'.name)
                    now == dicts'[ret_config'][key]
                IN  /\ ~value.extendable => now = value
                    /\ value.extendable =>
                          IF key \in DOMAIN before
                          THEN Extended(before[key], value, now)
                          ELSE now = value
    /\ (api_op'.count = api_op.count + 1 /\ api_op'.kind = "setitem") => SetItemFrame

C24_Step ==
    /\ (api_op'.count = api_op.count + 1 /\ api_op'.kind = "call") =>
          /\ CallFrame
          /\ \A key \in DOMAIN api_op'.config :
                LET value == api_op'.config[key]
                    before == StoredBefore(api_op'.name)
                    now == dicts'[ret_config'][key]
                IN  IF key \in DOMAIN before
                       /\ (before[key].extendable \/ value.extendable)
                    THEN Extended(before[key], value, now)
                    ELSE now = value
    /\ (api_op'.count = api_op.count + 1 /\ api_op'.kind = "setitem") => SetItemFrame

----------------------------------------------------------------------------
(* The port range of the live-update server: src/lamarkdown/lib/lamd.py    *)

\* the least and greatest port of an accepted range
MinPort == 1024
MaxPort == 65535

\* re.fullmatch('[0-9]+', t)
IsDigits(t) == Len(t) >= 1 /\ \A i \in 1..Len(t) : \E d \in 1..10 : t[i] = Digits[d]

\* int(t), for a string of digits
RECURSIVE int(_)
int(t) ==
    IF t = <<>> THEN 0
    ELSE 10 * int(SubSeq(t, 1, Len(t) - 1))
         + (CHOOSE d \in 0..9 : Digits[d + 1] = t[Len(t)])

\* where the first '-' of the string is, or 0
FirstDash(s) ==
    IF \E i \in 1..Len(s) : s[i] = "-"
    THEN CHOOSE i \in 1..Len(s) : s[i] = "-" /\ \A j \in 1..(i - 1) : s[j] # "-"
    ELSE 0

\* re.fullmatch('(?P<start>[0-9]+)(-(?P<end>[0-9]+))?', s): the groups, or no match
fullmatch(s) ==
    LET dash == FirstDash(s)
        start == IF dash = 0 THEN s ELSE SubSeq(s, 1, dash - 1)
        end == IF dash = 0 THEN <<>> ELSE SubSeq(s, dash + 1, Len(s))
    IN  IF IsDigits(start) /\ (dash = 0 \/ IsDigits(end))
        THEN [match |-> TRUE, start |-> start, end |-> end]
        ELSE [match |-> FALSE, start |-> <<>>, end |-> <<>>]

\* raise argparse.ArgumentTypeError(...)
ArgumentTypeError == [status |-> "ArgumentTypeError", start |-> 0, stop |-> 0]

\* range(start, stop)
range(start, stop) == [status |-> "range", start |-> start, stop |-> stop]

\* variants of port_range_type
port_range_type_mut_stop_at_end(s) ==
    LET match == fullmatch(s)
    IN  IF ~match.match THEN ArgumentTypeError
        ELSE LET start == int(match.start)
                 end == IF match.end # <<>> THEN int(match.end) ELSE start
             IN  IF ~(MinPort <= start /\ start <= end /\ end <= MaxPort)
                 THEN ArgumentTypeError
                 ELSE range(start, end)

\* port_range_type(s)
port_range_type(s) ==
    LET match == fullmatch(s)
    IN  IF ~match.match THEN ArgumentTypeError
        ELSE LET start == int(match.start)
                 end == IF match.end # <<>> THEN int(match.end) ELSE start
             IN  IF ~(MinPort <= start /\ start <= end /\ end <= MaxPort)
                 THEN ArgumentTypeError
                 ELSE range(start, end + 1)

\* the numbers the strings tried are written from: around both limits
PortNumbers == {0, 80, 1023, 1024, 1025, 8000, 65534, 65535, 65536}

\* a number as written, with or without a leading zero
Written(n) == {DecStr(n), <<"0">> \o DecStr(n)}

\* characters that make a string of digits something else
Strays == {<<" ">>, <<"a">>, <<"-">>, <<"+">>, <<".">>}

\* the strings tried: N, N-M, and these with something missing or added
PortStrings ==
    LET numbers == UNION {Written(n) : n \in PortNumbers}
        plain == {DecStr(n) : n \in PortNumbers}
    IN  numbers
        \cup {a \o <<"-">> \o b : a \in plain, b \in numbers}
        \cup {<<>>}
        \cup Strays
        \cup {x \o a : x \in Strays, a \in plain}
        \cup {a \o x : x \in Strays, a \in plain}
        \cup {a \o <<"-">> \o b \o <<"-">> \o b : a \in {DecStr(1024)}, b \in plain}

\* lamd is started with --port s
PortRange(s) ==
    /\ port_ret = NoPorts
    /\ port_arg' = s
    /\ port_ret' = port_range_type(s)
    /\ UNCHANGED <<labelVars, pybtexVars, apiVars>>

PortRangeStep == \E s \in PortStrings : PortRange(s)

NextPorts == PortRangeStep

SpecPorts == Init /\ [][NextPorts]_vars

\* the strings that write the number n in decimal digits
Decimals(n) == {DecStr(n), <<"0">> \o DecStr(n)}

\* C25: port_range_type returns a range exactly for the strings 'N' and
\* 'N-M' in decimal digits with 1024 <= N <= M <= 65535 (M being N for 'N'),
\* the range then starts at N and its last element is M; for every other
\* string it raises ArgumentTypeError.
C25_PortRangeAccepted ==
    (port_ret # NoPorts) =>
        LET pairs == {nm \in PortNumbers \X PortNumbers :
                        /\ MinPort <= nm[1] /\ nm[1] <= nm[2] /\ nm[2] <= MaxPort
                        /\ \/ nm[1] = nm[2] /\ port_arg \in Decimals(nm[1])
                           \/ \E a \in Decimals(nm[1]), b \in Decimals(nm[2]) :
                                 port_arg = a \o <<"-">> \o b}
        IN  IF pairs = {}
            THEN port_ret = ArgumentTypeError
            ELSE /\ port_ret.status = "range"
                 /\ \A nm \in pairs : /\ port_ret.start = nm[1]
                                        /\ port_ret.stop - 1 = nm[2]

\* a range of several ports up to the greatest port was accepted
C25_Witness ==
    /\ port_ret.status = "range"
    /\ port_ret.start < port_ret.stop - 1
    /\ port_ret.stop - 1 = MaxPort
    /\ FirstDash(port_arg) # 0
====
